---- MODULE Spec2Model ----
(***************************************************************************)
(* A model of terraform-provider-pinot: the lifecycle handlers of the      *)
(* table, schema and user resources (internal/provider), the controller    *)
(* client they call (internal/client) and the helpers they share.          *)
(*                                                                         *)
(* One behaviour follows one resource instance of one kind.  The remote    *)
(* controller is the environment: every request is answered by any         *)
(* response of a small pool (a status with a body, or a network failure).  *)
(*                                                                         *)
(* Strings are sequences of tokens: a token is an atomic piece of text     *)
(* ("events", "_", "OFFLINE", a digit, a blank " ").  Suffix, prefix,      *)
(* substring, trimming and case conversion are computed on the tokens.     *)
(* A JSON value is a tagged record: JStr, JBool, JMap (a function from     *)
(* keys to values), JList (a sequence of values).  A JSON object at the    *)
(* top level of a document is the bare function.                           *)
(***************************************************************************)
EXTENDS Integers, Sequences, FiniteSets, TLC

VARIABLES kind, state, last

vars == <<kind, state, last>>

\* the empty string, and the blank token
Empty == <<>>

Blank == " "

(***************************************************************************)
(* JSON values.  The tag t is the first field of every value.               *)
(***************************************************************************)
JStr(s) == [t |-> "str", v |-> s]

JBool(b) == [t |-> "bool", v |-> b]

JMap(f) == [t |-> "map", v |-> f]

JList(q) == [t |-> "list", v |-> q]

JNone == [t |-> "none", v |-> Empty]

EmptyMap == [k \in {} |-> JNone]

IsMap(x) == x.t = "map"

IsList(x) == x.t = "list"

IsStr(x) == x.t = "str"

\* m[k] of a Go map: the zero value (no value) for a missing key
Get(m, k) == IF k \in DOMAIN m THEN m[k] ELSE JNone

\* m[k] = v
Put(m, k, v) == [x \in DOMAIN m \cup {k} |-> IF x = k THEN v ELSE m[x]]

\* a copy of m without key k
Without(m, k) == [x \in DOMAIN m \ {k} |-> m[x]]

\* v, _ := m[k].(string): the empty string unless the value is a string
StringAt(m, k) == IF IsStr(Get(m, k)) THEN Get(m, k).v ELSE Empty

SaslKey == "sasl.jaas.config"

(***************************************************************************)
(* Bounds of the model.                                                    *)
(***************************************************************************)
\* longest streamConfigMaps sequence among the documents tried
MaxMaps == 2

(***************************************************************************)
(* Strings.                                                                *)
(***************************************************************************)
\* strings.HasSuffix
HasSuffix(s, suf) ==
  /\ Len(suf) <= Len(s)
  /\ SubSeq(s, Len(s) - Len(suf) + 1, Len(s)) = suf

\* strings.HasPrefix
HasPrefix(s, pre) ==
  /\ Len(pre) <= Len(s)
  /\ SubSeq(s, 1, Len(pre)) = pre

\* strings.TrimSuffix
TrimSuffix(s, suf) ==
  IF HasSuffix(s, suf) THEN SubSeq(s, 1, Len(s) - Len(suf)) ELSE s

\* strings.Contains
Contains(s, sub) ==
  \E i \in 1..(Len(s) + 1) :
    /\ i + Len(sub) - 1 <= Len(s)
    /\ SubSeq(s, i, i + Len(sub) - 1) = sub

\* strings.TrimSpace: the string without its leading and trailing blanks
RECURSIVE TrimLeft(_)
TrimLeft(s) ==
  IF s # Empty /\ Head(s) = Blank THEN TrimLeft(Tail(s)) ELSE s

RECURSIVE TrimRight(_)
TrimRight(s) ==
  IF s # Empty /\ s[Len(s)] = Blank
    THEN TrimRight(SubSeq(s, 1, Len(s) - 1))
    ELSE s

TrimSpace(s) == TrimRight(TrimLeft(s))

\* strings.ToUpper: the upper-case form of every token
ToUpper(s) ==
  LET UpperToken(c) ==
        CASE c = "offline" -> "OFFLINE"
          [] c = "realtime" -> "REALTIME"
          [] c = "broker" -> "BROKER"
          [] c = "server" -> "SERVER"
          [] OTHER -> c
  IN  [i \in DOMAIN s |-> UpperToken(s[i])]

\* strings.EqualFold
EqualFold(a, b) == ToUpper(a) = ToUpper(b)

\* one decimal digit as a token
Digit(d) ==
  CASE d = 0 -> "0" [] d = 1 -> "1" [] d = 2 -> "2" [] d = 3 -> "3"
    [] d = 4 -> "4" [] d = 5 -> "5" [] d = 6 -> "6" [] d = 7 -> "7"
    [] d = 8 -> "8" [] OTHER -> "9"

\* fmt's %d of a natural number
RECURSIVE Digits(_)
Digits(n) ==
  IF n < 10 THEN <<Digit(n)>> ELSE Digits(n \div 10) \o <<Digit(n % 10)>>

\* the substring the table Read looks for in an error message
NotFoundMark == <<"4", "0", "4">>

(***************************************************************************)
(* types.String of the plugin framework: null, or a value.                 *)
(***************************************************************************)
StringNull == [null |-> TRUE, v |-> Empty]

StringValue(s) == [null |-> FALSE, v |-> s]

\* ValueString(): the empty string for null
ValueString(a) == IF a.null THEN Empty ELSE a.v

(***************************************************************************)
(* Helpers of the table resource.                                          *)
(***************************************************************************)
\* the ID is cut at the first "_OFFLINE" or "_REALTIME" in it
splitTableIDAtFirstSuffix(id) ==
  LET at == {i \in 1..(Len(id) - 1) :
               id[i] = "_" /\ id[i + 1] \in {"OFFLINE", "REALTIME"}}
      first == CHOOSE i \in at : \A j \in at : i <= j
  IN  IF at = {} THEN <<id, Empty>>
                 ELSE <<SubSeq(id, 1, first - 1), <<id[first + 1]>> >>

\* an ID without a suffix is taken for an offline table
splitTableIDGuessOffline(id) ==
  CASE HasSuffix(id, <<"_", "OFFLINE">>) ->
         <<TrimSuffix(id, <<"_", "OFFLINE">>), <<"OFFLINE">> >>
    [] HasSuffix(id, <<"_", "REALTIME">>) ->
         <<TrimSuffix(id, <<"_", "REALTIME">>), <<"REALTIME">> >>
    [] OTHER -> <<id, <<"OFFLINE">> >>

\* splitTableID: <<logical, typ>>
splitTableID(id) ==
  CASE HasSuffix(id, <<"_", "OFFLINE">>) ->
         <<TrimSuffix(id, <<"_", "OFFLINE">>), <<"OFFLINE">> >>
    [] HasSuffix(id, <<"_", "REALTIME">>) ->
         <<TrimSuffix(id, <<"_", "REALTIME">>), <<"REALTIME">> >>
    [] OTHER -> <<id, Empty>>

\* the flavor is compared without regard to letter case
ValidTableTypeAnyCase(t) == ToUpper(t) \in {<<"OFFLINE">>, <<"REALTIME">>}

\* stringvalidator.OneOf("OFFLINE", "REALTIME") on table_type
ValidTableType(t) == t \in {<<"OFFLINE">>, <<"REALTIME">>}

\* joinTableID
joinTableID(logical, typ) ==
  LET l == TrimSpace(logical)
      t == ToUpper(TrimSpace(typ))
  IN  IF l = Empty \/ t = Empty THEN l ELSE l \o <<"_">> \o t

\* buildSaslJaas: the template with both values embedded verbatim
buildSaslJaas(username, password) ==
  <<"org.apache.kafka.common.security.scram.ScramLoginModule required username=\"">>
    \o username
    \o <<"\" password=\"">> \o password \o <<"\";">>

\* the values are compared with "" as they are, blanks included
buildSaslIfProvidedNoTrim(data) ==
  CASE data.kafka_username.null /\ data.kafka_password.null ->
         [err |-> FALSE, msg |-> Empty, value |-> Empty]
    [] data.kafka_username.null \/ data.kafka_password.null ->
         [err |-> TRUE,
          msg |-> <<"both kafka_username and kafka_password must be provided together">>,
          value |-> Empty]
    [] ValueString(data.kafka_username) = Empty
         \/ ValueString(data.kafka_password) = Empty ->
         [err |-> TRUE,
          msg |-> <<"both kafka_username and kafka_password must be non-empty">>,
          value |-> Empty]
    [] OTHER ->
         [err |-> FALSE, msg |-> Empty,
          value |-> buildSaslJaas(ValueString(data.kafka_username),
                                  ValueString(data.kafka_password))]

\* ValueString() of both is compared with "": a null and an empty string are
\* the same
buildSaslIfProvidedEmptyIsNone(data) ==
  CASE TrimSpace(ValueString(data.kafka_username)) = Empty
         /\ TrimSpace(ValueString(data.kafka_password)) = Empty ->
         [err |-> FALSE, msg |-> Empty, value |-> Empty]
    [] TrimSpace(ValueString(data.kafka_username)) = Empty
         \/ TrimSpace(ValueString(data.kafka_password)) = Empty ->
         [err |-> TRUE,
          msg |-> <<"both kafka_username and kafka_password must be non-empty">>,
          value |-> Empty]
    [] OTHER ->
         [err |-> FALSE, msg |-> Empty,
          value |-> buildSaslJaas(ValueString(data.kafka_username),
                                  ValueString(data.kafka_password))]

\* buildSaslIfProvided: the credential (empty when none is asked for), or an
\* error
buildSaslIfProvided(data) ==
  CASE data.kafka_username.null /\ data.kafka_password.null ->
         [err |-> FALSE, msg |-> Empty, value |-> Empty]
    [] data.kafka_username.null \/ data.kafka_password.null ->
         [err |-> TRUE,
          msg |-> <<"both kafka_username and kafka_password must be provided together">>,
          value |-> Empty]
    [] TrimSpace(ValueString(data.kafka_username)) = Empty
         \/ TrimSpace(ValueString(data.kafka_password)) = Empty ->
         [err |-> TRUE,
          msg |-> <<"both kafka_username and kafka_password must be non-empty">>,
          value |-> Empty]
    [] OTHER ->
         [err |-> FALSE, msg |-> Empty,
          value |-> buildSaslJaas(ValueString(data.kafka_username),
                                  ValueString(data.kafka_password))]

\* a fresh mapping is made whatever is there
MapAtAlwaysNew(m, k) == EmptyMap

\* v, _ := m[k].(map[string]interface{}): nil unless the value is a mapping;
\* a nil mapping is then replaced by a fresh empty one
MapAtOrNew(m, k) == IF IsMap(Get(m, k)) THEN Get(m, k).v ELSE EmptyMap

\* a fresh mapping holding only the secret
OnlySasl(sasl) == JMap(Put(EmptyMap, SaslKey, JStr(sasl)))

\* the first element keeps what it was when it is no mapping
InjectIntoKeepsNonMap(scm, sasl) ==
  CASE IsMap(scm) -> JMap(Put(scm.v, SaslKey, JStr(sasl)))
    [] IsList(scm) /\ Len(scm.v) > 0 /\ IsMap(scm.v[1]) ->
         JList([scm.v EXCEPT ![1] = JMap(Put(scm.v[1].v, SaslKey, JStr(sasl)))])
    [] IsList(scm) /\ Len(scm.v) > 0 -> scm
    [] OTHER -> JList(<<OnlySasl(sasl)>>)

\* the key is set on every mapping of the list shape
InjectIntoEveryElement(scm, sasl) ==
  CASE IsMap(scm) -> JMap(Put(scm.v, SaslKey, JStr(sasl)))
    [] IsList(scm) /\ Len(scm.v) = 0 -> JList(<<OnlySasl(sasl)>>)
    [] IsList(scm) /\ Len(scm.v) > 0 ->
         JList([i \in DOMAIN scm.v |->
                  IF IsMap(scm.v[i])
                    THEN JMap(Put(scm.v[i].v, SaslKey, JStr(sasl)))
                    ELSE IF i = 1 THEN OnlySasl(sasl) ELSE scm.v[i]])
    [] OTHER -> JList(<<OnlySasl(sasl)>>)

\* the switch of injectKafkaSasl on the shape of streamConfigMaps: the new
\* value of streamConfigMaps
InjectInto(scm, sasl) ==
  CASE IsMap(scm) -> JMap(Put(scm.v, SaslKey, JStr(sasl)))
    [] IsList(scm) /\ Len(scm.v) = 0 -> JList(<<OnlySasl(sasl)>>)
    [] IsList(scm) /\ Len(scm.v) > 0 /\ ~IsMap(scm.v[1]) ->
         JList([scm.v EXCEPT ![1] = OnlySasl(sasl)])
    [] IsList(scm) /\ Len(scm.v) > 0 /\ IsMap(scm.v[1]) ->
         JList([scm.v EXCEPT ![1] = JMap(Put(scm.v[1].v, SaslKey, JStr(sasl)))])
    [] OTHER -> JList(<<OnlySasl(sasl)>>)

\* injectKafkaSasl: the table configuration after the call
injectKafkaSasl(tableConfig, sasl) ==
  LET ingestion == MapAtOrNew(tableConfig, "ingestionConfig")
      streamIngestion == MapAtOrNew(ingestion, "streamIngestionConfig")
      scm == InjectInto(Get(streamIngestion, "streamConfigMaps"), sasl)
      newStream == Put(streamIngestion, "streamConfigMaps", scm)
      newIngestion == Put(ingestion, "streamIngestionConfig", JMap(newStream))
  IN  Put(tableConfig, "ingestionConfig", JMap(newIngestion))

\* every element of the list shape comes out as a mapping
RedactElementAsMap(el) ==
  IF IsMap(el) THEN JMap(Without(el.v, SaslKey)) ELSE JMap(EmptyMap)

\* one element of the list shape without the secret; other elements as
\* they are
RedactElement(el) == IF IsMap(el) THEN JMap(Without(el.v, SaslKey)) ELSE el

\* only the first element of the list shape loses the secret
RedactMapsFirstOnly(scm) ==
  CASE IsMap(scm) -> JMap(Without(scm.v, SaslKey))
    [] IsList(scm) ->
         JList([i \in DOMAIN scm.v |->
                  IF i = 1 THEN RedactElement(scm.v[i]) ELSE scm.v[i]])
    [] OTHER -> scm

\* the two shapes removeSaslJaasFromTableConfig handles: the new value of
\* streamConfigMaps
RedactMaps(scm) ==
  CASE IsMap(scm) -> JMap(Without(scm.v, SaslKey))
    [] IsList(scm) -> JList([i \in DOMAIN scm.v |-> RedactElement(scm.v[i])])
    [] OTHER -> scm

\* removeSaslJaasFromTableConfig: a copy of the configuration without the
\* secret
removeSaslJaasFromTableConfig(input) ==
  IF ~IsMap(Get(input, "ingestionConfig")) THEN input
  ELSE
    LET ingestion == input["ingestionConfig"].v
    IN  IF ~IsMap(Get(ingestion, "streamIngestionConfig")) THEN input
        ELSE
          LET streamIngestion == ingestion["streamIngestionConfig"].v
              newStream ==
                IF "streamConfigMaps" \in DOMAIN streamIngestion
                  THEN Put(streamIngestion, "streamConfigMaps",
                           RedactMaps(streamIngestion["streamConfigMaps"]))
                  ELSE streamIngestion
              newIngestion ==
                Put(ingestion, "streamIngestionConfig", JMap(newStream))
          IN  Put(input, "ingestionConfig", JMap(newIngestion))

\* newIngestion := ingestion: the same mapping under another name
SameMap(m) == [own |-> FALSE, v |-> m]

\* make(...) and the loop that fills it: a mapping of the call's own, with
\* the entries of m
CopyOfMap(m) == [own |-> TRUE, v |-> m]

\* the argument of removeSaslJaasFromTableConfig as the call leaves it.  The
\* call assigns to out, newIngestion and newStreamIngestion; an assignment
\* to a mapping that is not the call's own lands in the argument, which
\* then has streamConfigMaps as the result has it
InputAfterRedact(input) ==
  LET out == CopyOfMap(input)
      ingestion == Get(out.v, "ingestionConfig")
      newIngestion == CopyOfMap(ingestion.v)
      streamIngestion == Get(newIngestion.v, "streamIngestionConfig")
      newStreamIngestion == CopyOfMap(streamIngestion.v)
  IN  CASE ~IsMap(ingestion) -> input
        [] ~IsMap(streamIngestion) -> input
        [] out.own /\ newIngestion.own /\ newStreamIngestion.own -> input
        [] OTHER -> removeSaslJaasFromTableConfig(input)

\* the value at ingestionConfig.streamIngestionConfig.streamConfigMaps, or
\* no value when the path does not exist
StreamConfigMaps(doc) ==
  LET ing == Get(doc, "ingestionConfig")
      str == IF IsMap(ing) THEN Get(ing.v, "streamIngestionConfig") ELSE JNone
  IN  IF IsMap(str) THEN Get(str.v, "streamConfigMaps") ELSE JNone

(***************************************************************************)
(* The controller client (internal/client).                                *)
(***************************************************************************)
ControllerURL == <<"http://pinot:9000">>

\* a response body that is text (of an error page, or no JSON at all)
Text(s) == [t |-> "text", v |-> s]

NoBody == [t |-> "none", v |-> Empty]

\* what the environment answers to one request: a network-level failure, or
\* a status with a body
NetFailure == [net |-> TRUE, status |-> 0, body |-> NoBody]

Answer(status, body) == [net |-> FALSE, status |-> status, body |-> body]

\* string(respBody); only text bodies come with the error statuses tried
BodyText(b) == IF b.t = "text" THEN b.v ELSE <<"{json}">>

\* url.PathEscape on the tokens tried: a blank becomes %20
PathEscape(s) == [i \in DOMAIN s |-> IF s[i] = Blank THEN "%20" ELSE s[i]]

Request(method, url, body, resp) ==
  [method |-> method, url |-> url, body |-> body, resp |-> resp]

\* the operation a *url.Error names: the method, capitalised
Op(method) ==
  CASE method = "GET" -> "Get"
    [] method = "POST" -> "Post"
    [] method = "PUT" -> "Put"
    [] method = "DELETE" -> "Delete"

\* only a status of 500 and more is an error
doRequestServerErrorsOnly(method, url, resp) ==
  CASE resp.net ->
         [err |-> TRUE, body |-> NoBody,
          msg |-> <<"request failed: ", Op(method), " \"">> \o url
                    \o <<"\": dial tcp: connection refused">>]
    [] resp.status >= 500 ->
         [err |-> TRUE, body |-> NoBody,
          msg |-> <<"API error (status ">> \o Digits(resp.status)
                    \o <<"): ">> \o BodyText(resp.body)]
    [] OTHER -> [err |-> FALSE, body |-> resp.body, msg |-> Empty]

\* doRequest: the body of the answer, or an error with its message
doRequest(method, url, resp) ==
  CASE resp.net ->
         [err |-> TRUE, body |-> NoBody,
          msg |-> <<"request failed: ", Op(method), " \"">> \o url
                    \o <<"\": dial tcp: connection refused">>]
    [] resp.status >= 400 ->
         [err |-> TRUE, body |-> NoBody,
          msg |-> <<"API error (status ">> \o Digits(resp.status)
                    \o <<"): ">> \o BodyText(resp.body)]
    [] OTHER -> [err |-> FALSE, body |-> resp.body, msg |-> Empty]

\* json.Unmarshal into a map succeeds on a JSON object only
DecodesToObject(body) == body.t = "map"

TablesURL == ControllerURL \o <<"/tables">>

TableURL(id) == ControllerURL \o <<"/tables/">> \o id

\* a response without a wrapper key is an error
GetTableWrappedOnly(tableName, resp) ==
  LET r == doRequest("GET", TableURL(tableName), resp)
  IN  CASE r.err -> [err |-> TRUE, msg |-> r.msg, config |-> EmptyMap]
        [] ~DecodesToObject(r.body) ->
             [err |-> TRUE, config |-> EmptyMap,
              msg |-> <<"failed to unmarshal table config: ",
                        "unexpected end of JSON input">>]
        [] IsMap(Get(r.body.v, "OFFLINE")) ->
             [err |-> FALSE, msg |-> Empty, config |-> r.body.v["OFFLINE"].v]
        [] IsMap(Get(r.body.v, "REALTIME")) ->
             [err |-> FALSE, msg |-> Empty, config |-> r.body.v["REALTIME"].v]
        [] OTHER ->
             [err |-> TRUE, config |-> EmptyMap,
              msg |-> <<"table config has neither OFFLINE nor REALTIME">>]

\* GetTable: the configuration under the wrapper key, or the response as it is
GetTable(tableName, resp) ==
  LET r == doRequest("GET", TableURL(tableName), resp)
  IN  CASE r.err -> [err |-> TRUE, msg |-> r.msg, config |-> EmptyMap]
        [] ~DecodesToObject(r.body) ->
             [err |-> TRUE, config |-> EmptyMap,
              msg |-> <<"failed to unmarshal table config: ",
                        "unexpected end of JSON input">>]
        [] IsMap(Get(r.body.v, "OFFLINE")) ->
             [err |-> FALSE, msg |-> Empty, config |-> r.body.v["OFFLINE"].v]
        [] IsMap(Get(r.body.v, "REALTIME")) ->
             [err |-> FALSE, msg |-> Empty, config |-> r.body.v["REALTIME"].v]
        [] OTHER -> [err |-> FALSE, msg |-> Empty, config |-> r.body.v]

\* ReloadTable's URL
ReloadURL(logicalName, tableType) ==
  ControllerURL \o <<"/segments/">> \o PathEscape(logicalName)
    \o <<"/reload?type=">> \o ToUpper(tableType)

\* the value of the Authorization header of a request, or no header
NoHeader == [set |-> FALSE, v |-> Empty]

Header(v) == [set |-> TRUE, v |-> v]

\* the Authorization header doRequest sets from the client's credentials
AuthHeader(c) ==
  LET \* req.SetBasicAuth: "Basic " and the base64 of username:password
      BasicAuth(username, password) ==
        Header(<<"Basic ", "base64(">> \o username \o <<":">> \o password
                 \o <<")">>)
      tok == TrimSpace(c.token)
      periods == Cardinality({i \in DOMAIN tok : tok[i] = "."})
  IN  CASE tok # Empty /\ (HasPrefix(tok, <<"Bearer ">>)
                             \/ HasPrefix(tok, <<"Basic ">>)) -> Header(tok)
        [] tok # Empty /\ periods >= 2 -> Header(<<"Bearer ">> \o tok)
        [] tok # Empty -> Header(<<"Basic ">> \o tok)
        [] c.username # Empty \/ c.password # Empty ->
             BasicAuth(c.username, c.password)
        [] OTHER -> NoHeader

\* the Authorization header deleteTableByLogical sets, from the environment
DeleteAuthHeader(env) ==
  LET BasicAuth(username, password) ==
        Header(<<"Basic ", "base64(">> \o username \o <<":">> \o password
                 \o <<")">>)
      token == TrimSpace(env.token)
  IN  CASE token # Empty -> Header(<<"Basic ">> \o token)
        [] env.username # Empty \/ env.password # Empty ->
             BasicAuth(env.username, env.password)
        [] OTHER -> NoHeader

\* Configure: the credentials of the client, each from the provider's
\* configuration when it is set there and from the environment otherwise
Configure(env, config) ==
  [token |-> IF config.token # Empty THEN config.token ELSE env.token,
   username |-> IF config.username # Empty THEN config.username
                                           ELSE env.username,
   password |-> IF config.password # Empty THEN config.password
                                           ELSE env.password]

(***************************************************************************)
(* Diagnostics, the tracked state and the record of the last operation.    *)
(***************************************************************************)
Diag(summary, detail) == [summary |-> summary, detail |-> detail]

ConfigNull == [null |-> TRUE, v |-> EmptyMap]

ConfigValue(doc) == [null |-> FALSE, v |-> doc]

\* the attributes of a table resource, all null
TableNull ==
  [id |-> StringNull, table_name |-> StringNull, table_type |-> StringNull,
   table_config |-> ConfigNull, kafka_username |-> StringNull,
   kafka_password |-> StringNull, sasl_jaas_config |-> StringNull]

Absent(attrs) == [present |-> FALSE, attrs |-> attrs]

Present(attrs) == [present |-> TRUE, attrs |-> attrs]

\* what a handler leaves: the tracked state and its response
Outcome(st, errors, warnings, reqs) ==
  [state |-> st, errors |-> errors, warnings |-> warnings, reqs |-> reqs]

NoInput == [none |-> TRUE]

\* the last operation: the handler, its input besides the tracked state (a
\* plan, an import ID, the attributes a Read looks up) and its response
Last(op, input, o) ==
  [op |-> op, input |-> input, errors |-> o.errors, warnings |-> o.warnings,
   reqs |-> o.reqs]

(***************************************************************************)
(* The table resource (internal/provider/table_resource.go).               *)
(***************************************************************************)
\* the plan's attributes as the handler's data
TableData(plan) ==
  [TableNull EXCEPT !.table_name = StringValue(plan.table_name),
                    !.table_type = StringValue(plan.table_type),
                    !.table_config = ConfigValue(plan.table_config),
                    !.kafka_username = plan.kafka_username,
                    !.kafka_password = plan.kafka_password]

NameMismatch(full) ==
  Diag("Table Name Mismatch",
       <<"The table configuration name must be ">> \o full)

TypeMismatch(typ) ==
  Diag("Table Type Mismatch",
       <<"The table configuration type must be ">> \o ToUpper(typ))

\* the validation of Create on the embedded tableName: a missing one reads as
\* the empty string
CreateNameMismatch(tn, fullTableName) == tn # fullTableName

\* the validation of Create on the embedded tableType
CreateTypeMismatch(tt, tableType) == ~EqualFold(tt, tableType)

\* Update checks a missing tableName as Create does
UpdateNameMismatchStrict(tn, fullTableName) == tn # fullTableName

\* the optional validation of Update on the embedded tableName
UpdateNameMismatch(tn, fullTableName) == tn # Empty /\ tn # fullTableName

\* the optional validation of Update on the embedded tableType
UpdateTypeMismatch(tt, tableType) == tt # Empty /\ ~EqualFold(tt, tableType)

\* the document sent: with the credential injected when one was built
Payload(tableConfig, saslValue) ==
  IF saslValue # Empty THEN injectKafkaSasl(tableConfig, saslValue)
                       ELSE tableConfig

\* data as Create and Update write it: the redacted configuration and the
\* computed credential
Written(data, sent, saslValue) ==
  [data EXCEPT
     !.table_config = ConfigValue(removeSaslJaasFromTableConfig(sent)),
     !.sasl_jaas_config =
        IF saslValue # Empty THEN StringValue(saslValue) ELSE StringNull]

\* the handler goes on to resp.State.Set although the remote call failed
StateAfterNoReturn(st, written, failed) == written

\* the early return of a handler whose remote call failed: resp.State.Set is
\* reached only after a successful call
StateAfter(st, written, failed) == IF failed THEN st ELSE written

\* a failed reload is reported as an error
ReloadDiagsAsError(failed, detail) ==
  [errors |-> IF failed THEN <<Diag("Pinot Segment Reload Failed", detail)>>
                        ELSE <<>>,
   warnings |-> <<>>]

\* what Update reports about the segment reload
ReloadDiags(failed, detail) ==
  [errors |-> <<>>,
   warnings |-> IF failed THEN <<Diag("Pinot Segment Reload Failed", detail)>>
                          ELSE <<>>]

\* Create
TableCreateOutcome(st, plan, resp) ==
  LET data == TableData(plan)
      tableConfig == plan.table_config
      fullTableName == joinTableID(plan.table_name, plan.table_type)
      tn == StringAt(tableConfig, "tableName")
      tt == StringAt(tableConfig, "tableType")
      sasl == buildSaslIfProvided(data)
      sent == Payload(tableConfig, sasl.value)
      r == doRequest("POST", TablesURL, resp)
      req == Request("POST", TablesURL, JMap(sent), resp)
  IN  CASE CreateNameMismatch(tn, fullTableName) ->
             Outcome(st, <<NameMismatch(fullTableName)>>, <<>>, <<>>)
        [] CreateTypeMismatch(tt, plan.table_type) ->
             Outcome(st, <<TypeMismatch(plan.table_type)>>, <<>>, <<>>)
        [] sasl.err ->
             Outcome(st, <<Diag("Kafka Credentials Incomplete", sasl.msg)>>,
                     <<>>, <<>>)
        [] OTHER ->
             Outcome(StateAfter(st,
                                Present([Written(data, sent, sasl.value)
                                           EXCEPT !.id = StringValue(fullTableName)]),
                                r.err),
                     IF r.err
                       THEN <<Diag("Error Creating Pinot Table",
                                   <<"Could not create table, unexpected error: ">>
                                     \o r.msg)>>
                       ELSE <<>>,
                     <<>>, <<req>>)

\* Read
TableReadOutcome(st, resp) ==
  LET data == st.attrs
      id == ValueString(data.id)
      got == GetTable(id, resp)
      req == Request("GET", TableURL(id), NoBody, resp)
  IN  CASE got.err /\ Contains(got.msg, NotFoundMark) ->
             Outcome(Absent(TableNull), <<>>, <<>>, <<req>>)
        [] got.err ->
             Outcome(st,
                     <<Diag("Error Reading Pinot Table",
                            <<"Could not read table ID ">> \o id \o <<": ">>
                              \o got.msg)>>,
                     <<>>, <<req>>)
        [] OTHER ->
             Outcome(Present([data EXCEPT
                        !.table_config =
                           ConfigValue(removeSaslJaasFromTableConfig(got.config)),
                        !.sasl_jaas_config = StringNull]),
                     <<>>, <<>>, <<req>>)

\* Update; UpdateTable of the client sends the PUT to the name found in the
\* document
TableUpdateOutcome(st, plan, resp, reloadResp) ==
  LET data == [TableData(plan) EXCEPT !.id = st.attrs.id]
      tableConfig == plan.table_config
      fullTableName == joinTableID(plan.table_name, plan.table_type)
      tn == StringAt(tableConfig, "tableName")
      tt == StringAt(tableConfig, "tableType")
      sasl == buildSaslIfProvided(data)
      sent == Payload(tableConfig, sasl.value)
      named == IsStr(Get(sent, "tableName"))
      url == IF named THEN TableURL(Get(sent, "tableName").v) ELSE TablesURL
      r == doRequest("PUT", url, resp)
      put == Request("PUT", url, JMap(sent), resp)
      \* ReloadTable sends nothing when a name is empty
      blank == plan.table_name = Empty \/ plan.table_type = Empty
      reloadURL == ReloadURL(plan.table_name, plan.table_type)
      rr == IF blank
              THEN [err |-> TRUE, body |-> NoBody,
                    msg |-> CASE plan.table_type # Empty ->
                                   <<"logicalName is required">>
                              [] plan.table_name # Empty ->
                                   <<"tableType is required">>
                              [] OTHER ->
                                   <<"logicalName and tableType is required">>]
              ELSE doRequest("POST", reloadURL, reloadResp)
      reqs == IF blank THEN <<put>>
                       ELSE <<put, Request("POST", reloadURL, NoBody, reloadResp)>>
      failure(msg) ==
        <<Diag("Error Updating Pinot Table",
               <<"Could not update table, unexpected error: ">> \o msg)>>
  IN  CASE UpdateNameMismatch(tn, fullTableName) ->
             Outcome(st, <<NameMismatch(fullTableName)>>, <<>>, <<>>)
        [] UpdateTypeMismatch(tt, plan.table_type) ->
             Outcome(st, <<TypeMismatch(plan.table_type)>>, <<>>, <<>>)
        [] sasl.err ->
             Outcome(st, <<Diag("Kafka Credentials Incomplete", sasl.msg)>>,
                     <<>>, <<>>)
        [] ~named ->
             Outcome(st, failure(<<"table name not found">>), <<>>, <<>>)
        [] r.err -> Outcome(st, failure(r.msg), <<>>, <<put>>)
        [] OTHER ->
             LET d == ReloadDiags(rr.err,
                                  <<"Updated table ">> \o fullTableName
                                    \o <<" but segment reload failed: ">>
                                    \o rr.msg)
             IN  Outcome(Present(Written(data, sent, sasl.value)),
                         d.errors, d.warnings, reqs)

\* a primary delete that takes only the 2xx answers as done
DeletedStatusesSuccessOnly == {200, 202, 204}

\* the statuses deleteTableByLogical takes for a done delete: deleted, or
\* already gone
DeletedStatuses == {200, 202, 204, 404}

\* deleteTableByLogical: the primary delete, sent to the URL of the
\* environment variable PINOT_CONTROLLER_URL when it is set
deleteTableByLogical(logical, typ, envSet, resp) ==
  LET url == ControllerURL \o <<"/tables/">> \o PathEscape(logical)
               \o <<"?type=">> \o ToUpper(typ)
  IN  CASE ~envSet ->
             [err |-> TRUE, reqs |-> <<>>,
              msg |-> <<"PINOT_CONTROLLER_URL not set">>]
        [] resp.net ->
             [err |-> TRUE, reqs |-> <<Request("DELETE", url, NoBody, resp)>>,
              msg |-> <<Op("DELETE"), " \"">> \o url
                        \o <<"\": dial tcp: connection refused">>]
        [] resp.status \in DeletedStatuses ->
             [err |-> FALSE, reqs |-> <<Request("DELETE", url, NoBody, resp)>>,
              msg |-> Empty]
        [] OTHER ->
             [err |-> TRUE, reqs |-> <<Request("DELETE", url, NoBody, resp)>>,
              msg |-> <<"unexpected status deleting table \"">> \o logical
                        \o <<"\" type \"">> \o typ \o <<"\": ">>
                        \o Digits(resp.status)]

\* the logical name and the flavor Delete addresses: the attributes, or
\* for an empty one the part of the ID
DeleteTarget(data) ==
  LET name == TrimSpace(ValueString(data.table_name))
      flavor == ToUpper(TrimSpace(ValueString(data.table_type)))
      parsed == splitTableID(ValueString(data.id))
      parse == name = Empty \/ flavor = Empty
  IN  [logical |-> IF parse /\ name = Empty THEN parsed[1] ELSE name,
       typ |-> IF parse /\ flavor = Empty THEN parsed[2] ELSE flavor]

\* the failure of the primary delete alone is reported
DeleteFailsOnPrimary(primaryErr, fallbackErr) == primaryErr

\* Delete fails when the primary delete failed and the fallback after it
\* failed too
DeleteFails(primaryErr, fallbackErr) == primaryErr /\ fallbackErr

\* Delete; the framework drops the state of a Delete that reports no error
TableDeleteOutcome(st, envSet, resp, fallbackResp) ==
  LET data == st.attrs
      logical == DeleteTarget(data).logical
      typ == DeleteTarget(data).typ
      primary == deleteTableByLogical(logical, typ, envSet, resp)
      fallbackURL == TableURL(joinTableID(logical, typ))
      fallback == doRequest("DELETE", fallbackURL, fallbackResp)
      fallbackReq == Request("DELETE", fallbackURL, NoBody, fallbackResp)
  IN  CASE logical = Empty \/ typ = Empty ->
             Outcome(st,
                     <<Diag("Error Deleting Pinot Table",
                            <<"Missing table_name or table_type; cannot compute DELETE endpoint.">>)>>,
                     <<>>, <<>>)
        [] ~primary.err -> Outcome(Absent(TableNull), <<>>, <<>>, primary.reqs)
        [] ~DeleteFails(primary.err, fallback.err) ->
             Outcome(Absent(TableNull), <<>>, <<>>,
                     primary.reqs \o <<fallbackReq>>)
        [] OTHER ->
             Outcome(st,
                     <<Diag("Error Deleting Pinot Table",
                            <<"logical delete failed: ">> \o primary.msg
                              \o <<"; fallback delete failed: ">>
                              \o fallback.msg)>>,
                     <<>>, primary.reqs \o <<fallbackReq>>)

\* resource.ImportStatePassthroughID: the ID alone is set
TableImportOutcomeIDOnly(st, id) ==
  Outcome(Present([TableNull EXCEPT !.id = StringValue(id)]), <<>>, <<>>, <<>>)

\* ImportState: the three attributes set from the ID, nothing sent
TableImportOutcome(st, id) ==
  LET parsed == splitTableID(id)
      logical == parsed[1]
      typ == parsed[2]
  IN  IF logical = Empty \/ typ = Empty
        THEN Outcome(st,
                     <<Diag("Invalid Import ID",
                            <<"Import ID must be in format: tableName_TYPE">>)>>,
                     <<>>, <<>>)
        ELSE Outcome(Present([TableNull EXCEPT
                                !.id = StringValue(joinTableID(logical, typ)),
                                !.table_name = StringValue(logical),
                                !.table_type = StringValue(typ)]),
                     <<>>, <<>>, <<>>)

(***************************************************************************)
(* The schema resource (schema_resource.go).                               *)
(***************************************************************************)
SchemaNullAttrs ==
  [id |-> StringNull, schema_name |-> StringNull, schema |-> ConfigNull]

\* json.Unmarshal into FieldSpec: the four known keys, a missing bool false
DecodeFieldSpec(el) ==
  [name |-> StringAt(el.v, "name"),
   dataType |-> StringAt(el.v, "dataType"),
   singleValueField |->
     IF "singleValueField" \in DOMAIN el.v THEN el.v["singleValueField"].v
                                           ELSE FALSE,
   defaultNullValue |-> Get(el.v, "defaultNullValue")]

\* a []FieldSpec of the document, empty when the key is missing
DecodeFieldSpecs(doc, key) ==
  IF IsList(Get(doc, key))
    THEN [i \in DOMAIN doc[key].v |-> DecodeFieldSpec(doc[key].v[i])]
    ELSE <<>>

\* Normalized.Unmarshal into PinotSchema: the known keys only
DecodeSchema(doc) ==
  [SchemaName |-> StringAt(doc, "schemaName"),
   EnableColumnBasedNull |->
     IF "enableColumnBasedNullHandling" \in DOMAIN doc
       THEN doc["enableColumnBasedNullHandling"].v ELSE FALSE,
   DimensionFieldSpecs |-> DecodeFieldSpecs(doc, "dimensionFieldSpecs"),
   MetricFieldSpecs |-> DecodeFieldSpecs(doc, "metricFieldSpecs"),
   DateTimeFieldSpecs |->
     IF IsList(Get(doc, "dateTimeFieldSpecs")) THEN doc["dateTimeFieldSpecs"].v
                                               ELSE <<>>]

\* m with key k set to v unless omitempty leaves it out
PutUnless(m, k, v, omit) == IF omit THEN m ELSE Put(m, k, v)

\* json.Marshal of a FieldSpec: omitempty drops a false singleValueField and
\* a nil defaultNullValue
EncodeFieldSpec(f) ==
  JMap(PutUnless(
         PutUnless([name |-> JStr(f.name), dataType |-> JStr(f.dataType)],
                   "singleValueField", JBool(f.singleValueField),
                   ~f.singleValueField),
         "defaultNullValue", f.defaultNullValue, f.defaultNullValue = JNone))

EncodeFieldSpecs(q) == JList([i \in DOMAIN q |-> EncodeFieldSpec(q[i])])

\* json.Marshal of a PinotSchema: the body of the request
EncodeSchema(ps) ==
  PutUnless(
    PutUnless(
      PutUnless(
        PutUnless([schemaName |-> JStr(ps.SchemaName)],
                  "enableColumnBasedNullHandling",
                  JBool(ps.EnableColumnBasedNull), ~ps.EnableColumnBasedNull),
        "dimensionFieldSpecs", EncodeFieldSpecs(ps.DimensionFieldSpecs),
        ps.DimensionFieldSpecs = <<>>),
      "metricFieldSpecs", EncodeFieldSpecs(ps.MetricFieldSpecs),
      ps.MetricFieldSpecs = <<>>),
    "dateTimeFieldSpecs", JList(ps.DateTimeFieldSpecs),
    ps.DateTimeFieldSpecs = <<>>)

SchemasURL == ControllerURL \o <<"/schemas">>

SchemaURL(name) == ControllerURL \o <<"/schemas/">> \o name

SchemaData(st, plan) ==
  [id |-> st.attrs.id, schema_name |-> StringValue(plan.schema_name),
   schema |-> ConfigValue(plan.schema)]

\* Create
SchemaCreateOutcome(st, plan, resp) ==
  LET data == SchemaData(st, plan)
      pinotSchema == DecodeSchema(plan.schema)
      r == doRequest("POST", SchemasURL, resp)
      req == Request("POST", SchemasURL, JMap(EncodeSchema(pinotSchema)), resp)
  IN  CASE plan.schema_name # pinotSchema.SchemaName ->
             Outcome(st,
                     <<Diag("Schema Name Mismatch",
                            <<"The schema_name attribute (">> \o plan.schema_name
                              \o <<") must match the schemaName in the JSON configuration (">>
                              \o pinotSchema.SchemaName \o <<")">>)>>,
                     <<>>, <<>>)
        [] OTHER ->
             Outcome(StateAfter(st,
                                Present([data EXCEPT
                                   !.id = StringValue(pinotSchema.SchemaName)]),
                                r.err),
                     IF r.err
                       THEN <<Diag("Error Creating Pinot Schema",
                                   <<"Could not create schema, unexpected error: ">>
                                     \o r.msg)>>
                       ELSE <<>>,
                     <<>>, <<req>>)

\* Read: every failure of the GET is an error
SchemaReadOutcome(st, resp) ==
  LET data == st.attrs
      url == SchemaURL(ValueString(data.schema_name))
      r == doRequest("GET", url, resp)
      req == Request("GET", url, NoBody, resp)
      failure(msg) ==
        <<Diag("Error Reading Pinot Schema",
               <<"Could not read schema ID ">> \o ValueString(data.id)
                 \o <<": ">> \o msg)>>
  IN  CASE r.err -> Outcome(st, failure(r.msg), <<>>, <<req>>)
        [] ~DecodesToObject(r.body) ->
             Outcome(st,
                     failure(<<"failed to unmarshal schema: ",
                               "unexpected end of JSON input">>),
                     <<>>, <<req>>)
        [] OTHER ->
             Outcome(Present([data EXCEPT !.schema = ConfigValue(r.body.v)]),
                     <<>>, <<>>, <<req>>)

\* Update: the PUT goes to the schemaName of the document
SchemaUpdateOutcome(st, plan, resp) ==
  LET data == SchemaData(st, plan)
      pinotSchema == DecodeSchema(plan.schema)
      url == SchemaURL(pinotSchema.SchemaName)
      r == doRequest("PUT", url, resp)
      req == Request("PUT", url, JMap(EncodeSchema(pinotSchema)), resp)
  IN  Outcome(StateAfter(st, Present(data), r.err),
              IF r.err
                THEN <<Diag("Error Updating Pinot Schema",
                            <<"Could not update schema, unexpected error: ">>
                              \o r.msg)>>
                ELSE <<>>,
              <<>>, <<req>>)

\* Delete; the framework drops the state of a Delete that reports no error
SchemaDeleteOutcome(st, resp) ==
  LET url == SchemaURL(ValueString(st.attrs.schema_name))
      r == doRequest("DELETE", url, resp)
      req == Request("DELETE", url, NoBody, resp)
  IN  Outcome(IF r.err THEN st ELSE Absent(SchemaNullAttrs),
              IF r.err
                THEN <<Diag("Error Deleting Pinot Schema",
                            <<"Could not delete schema, unexpected error: ">>
                              \o r.msg)>>
                ELSE <<>>,
              <<>>, <<req>>)


(***************************************************************************)
(* The user resource (user_resource.go).  The keys of a user response are  *)
(* strings of tokens, as the wrapper key is built from the lookup.         *)
(***************************************************************************)
ListNull == [null |-> TRUE, v |-> <<>>]

ListValue(q) == [null |-> FALSE, v |-> q]

\* a []string: nil, or its elements
SliceNil == [nil |-> TRUE, v |-> <<>>]

Slice(q) == [nil |-> FALSE, v |-> q]

\* types.ListValueFrom: a null list for a nil slice
ListValueFrom(s) == IF s.nil THEN ListNull ELSE ListValue(s.v)

\* toStringSlice: nil for a null list
toStringSlice(l) == IF l.null THEN SliceNil ELSE Slice(l.v)

UserNullAttrs ==
  [id |-> StringNull, username |-> StringNull, password |-> StringNull,
   component |-> StringNull, role |-> StringNull, tables |-> ListNull,
   permissions |-> ListNull]

K(name) == <<name>>

\* a []string field of a user object, nil when the key is missing
StringsAt(m, k) ==
  IF IsList(Get(m, k)) THEN Slice([i \in DOMAIN m[k].v |-> m[k].v[i].v])
                       ELSE SliceNil

\* json.Marshal and json.Unmarshal into PinotUser: an object gives its
\* known fields, anything else an error
DecodeUser(raw) ==
  IF IsMap(raw)
    THEN [err |-> FALSE, msg |-> Empty,
          user |-> [Username |-> StringAt(raw.v, K("username")),
                    Password |-> StringAt(raw.v, K("password")),
                    Component |-> StringAt(raw.v, K("component")),
                    Role |-> StringAt(raw.v, K("role")),
                    Tables |-> StringsAt(raw.v, K("tables")),
                    Permissions |-> StringsAt(raw.v, K("permissions"))]]
    ELSE [err |-> TRUE,
          msg |-> <<"json: cannot unmarshal into Go value of type provider.PinotUser">>,
          user |-> [Username |-> Empty, Password |-> Empty, Component |-> Empty,
                    Role |-> Empty, Tables |-> SliceNil, Permissions |-> SliceNil]]

\* the query both GetUser and UpdateUser send
UserURL(username, component) ==
  ControllerURL \o <<"/users/">> \o PathEscape(username) \o <<"?component=">>
    \o ToUpper(component) \o <<"&componentType=">> \o ToUpper(component)

UsersURL == ControllerURL \o <<"/users">>

\* the wrapper key fetchUser looks for
WrapperKey(username, component) == username \o <<"_">> \o component

\* the single entry of a one-key object
OnlyValue(top) == top[CHOOSE k \in DOMAIN top : TRUE]

\* fetchUser: the record chosen from the response, or an error
fetchUser(username, component, resp) ==
  LET r == doRequest("GET", UserURL(username, component), resp)
      key == WrapperKey(username, component)
      failed(msg) == [err |-> TRUE, msg |-> msg, user |-> DecodeUser(JNone).user]
  IN  CASE r.err -> failed(r.msg)
        [] ~DecodesToObject(r.body) ->
             failed(<<"failed to unmarshal user JSON: ",
                      "unexpected end of JSON input">>)
        [] K("username") \in DOMAIN r.body.v -> DecodeUser(r.body)
        [] key \in DOMAIN r.body.v -> DecodeUser(r.body.v[key])
        [] Cardinality(DOMAIN r.body.v) = 1 -> DecodeUser(OnlyValue(r.body.v))
        [] OTHER ->
             failed(<<"unexpected user response; neither plain object nor wrapper with key \"">>
                      \o key \o <<"\"">>)

\* the password is taken from the fetched user like the other attributes
FromUserWithPassword(data, u) ==
  [data EXCEPT !.username = StringValue(u.Username),
               !.password = StringValue(u.Password),
               !.component = StringValue(u.Component),
               !.role = StringValue(u.Role),
               !.tables = ListValueFrom(u.Tables),
               !.permissions = ListValueFrom(u.Permissions)]

\* the attributes Create and Read take from the fetched user
FromUser(data, u) ==
  [data EXCEPT !.username = StringValue(u.Username),
               !.component = StringValue(u.Component),
               !.role = StringValue(u.Role),
               !.tables = ListValueFrom(u.Tables),
               !.permissions = ListValueFrom(u.Permissions)]

UserData(st, plan) ==
  [id |-> st.attrs.id, username |-> StringValue(plan.username),
   password |-> plan.password, component |-> StringValue(plan.component),
   role |-> StringValue(plan.role), tables |-> plan.tables,
   permissions |-> plan.permissions]

\* json.Marshal of the PinotUser payload of Create: omitempty on password,
\* tables and permissions
CreatePayload(data) ==
  LET base == (K("username") :> JStr(ValueString(data.username)))
                @@ (K("component") :> JStr(ValueString(data.component)))
                @@ (K("role") :> JStr(ValueString(data.role)))
      strs(s) == JList([i \in DOMAIN s.v |-> JStr(s.v[i])])
  IN  PutUnless(
        PutUnless(
          PutUnless(base, K("password"), JStr(ValueString(data.password)),
                    ValueString(data.password) = Empty),
          K("tables"), strs(toStringSlice(data.tables)),
          toStringSlice(data.tables).v = <<>>),
        K("permissions"), strs(toStringSlice(data.permissions)),
        toStringSlice(data.permissions).v = <<>>)

\* the password is in the map whatever it is
UpdatePayloadWithPassword(data) ==
  LET StringsOrNull(s) ==
        IF s.nil THEN JNone ELSE JList([i \in DOMAIN s.v |-> JStr(s.v[i])])
  IN  (K("username") :> JStr(ValueString(data.username)))
        @@ (K("component") :> JStr(ValueString(data.component)))
        @@ (K("role") :> JStr(ValueString(data.role)))
        @@ (K("tables") :> StringsOrNull(toStringSlice(data.tables)))
        @@ (K("permissions") :> StringsOrNull(toStringSlice(data.permissions)))
        @@ (K("password") :> JStr(ValueString(data.password)))

\* the map Update sends: the password only when one is planned
UpdatePayload(data) ==
  LET \* a nil []string marshals to null
      StringsOrNull(s) ==
        IF s.nil THEN JNone ELSE JList([i \in DOMAIN s.v |-> JStr(s.v[i])])
      base == (K("username") :> JStr(ValueString(data.username)))
                @@ (K("component") :> JStr(ValueString(data.component)))
                @@ (K("role") :> JStr(ValueString(data.role)))
                @@ (K("tables") :> StringsOrNull(toStringSlice(data.tables)))
                @@ (K("permissions") :> StringsOrNull(toStringSlice(data.permissions)))
  IN  PutUnless(base, K("password"), JStr(ValueString(data.password)),
                data.password.null \/ ValueString(data.password) = Empty)

\* Create: the POST, then a lookup whose failure falls back to the plan
UserCreateOutcome(st, plan, resp, getResp) ==
  LET data == UserData(st, plan)
      r == doRequest("POST", UsersURL, resp)
      post == Request("POST", UsersURL, JMap(CreatePayload(data)), resp)
      url == UserURL(plan.username, plan.component)
      got == fetchUser(plan.username, plan.component, getResp)
      named == [data EXCEPT !.id = StringValue(plan.username)]
      written ==
        IF ~got.err THEN FromUser(named, got.user)
        ELSE [named EXCEPT !.tables = ListValueFrom(toStringSlice(data.tables)),
                           !.permissions =
                              ListValueFrom(toStringSlice(data.permissions))]
  IN  CASE data.password.null \/ ValueString(data.password) = Empty ->
             Outcome(st,
                     <<Diag("Missing password",
                            <<"Creating a Pinot user requires a non-empty password.">>)>>,
                     <<>>, <<>>)
        [] OTHER ->
             Outcome(StateAfter(st, Present(written), r.err),
                     IF r.err THEN <<Diag("Error Creating Pinot User", r.msg)>>
                              ELSE <<>>,
                     <<>>,
                     IF r.err THEN <<post>>
                              ELSE <<post, Request("GET", url, NoBody, getResp)>>)

\* Read: every failure of the lookup is an error; the password is not
\* touched
UserReadOutcome(st, resp) ==
  LET data == st.attrs
      url == UserURL(ValueString(data.username), ValueString(data.component))
      got == fetchUser(ValueString(data.username), ValueString(data.component), resp)
      req == Request("GET", url, NoBody, resp)
  IN  IF got.err
        THEN Outcome(st,
                     <<Diag("Error Reading Pinot User",
                            <<"Could not read user \"">> \o ValueString(data.username)
                              \o <<"\": ">> \o got.msg)>>,
                     <<>>, <<req>>)
        ELSE Outcome(Present(FromUser([data EXCEPT
                                         !.id = StringValue(got.user.Username)],
                                      got.user)),
                     <<>>, <<>>, <<req>>)

\* Update; UpdateUser of the client sends nothing without a username and a
\* component
UserUpdateOutcome(st, plan, resp) ==
  LET data == UserData(st, plan)
      url == UserURL(plan.username, plan.component)
      r == doRequest("PUT", url, resp)
      req == Request("PUT", url, JMap(UpdatePayload(data)), resp)
      failure(msg) == <<Diag("Error Updating Pinot User", msg)>>
  IN  CASE plan.username = Empty ->
             Outcome(st, failure(<<"username not found">>), <<>>, <<>>)
        [] plan.component = Empty ->
             Outcome(st, failure(<<"component not found">>), <<>>, <<>>)
        [] OTHER ->
             Outcome(StateAfter(st, Present(data), r.err),
                     IF r.err THEN failure(r.msg) ELSE <<>>, <<>>, <<req>>)

\* Delete; the framework drops the state of a Delete that reports no error
UserDeleteOutcome(st, resp) ==
  LET username == ValueString(st.attrs.username)
      component == ValueString(st.attrs.component)
      url == UserURL(username, component)
      r == doRequest("DELETE", url, resp)
      req == Request("DELETE", url, NoBody, resp)
      failure(msg) == <<Diag("Error Deleting Pinot User", msg)>>
  IN  CASE username = Empty ->
             Outcome(st, failure(<<"username is required">>), <<>>, <<>>)
        [] component = Empty ->
             Outcome(st, failure(<<"component is required">>), <<>>, <<>>)
        [] OTHER ->
             Outcome(IF r.err THEN st ELSE Absent(UserNullAttrs),
                     IF r.err THEN failure(r.msg) ELSE <<>>, <<>>, <<req>>)


(***************************************************************************)
(* The inputs tried.                                                       *)
(***************************************************************************)
TableNames == {<<"events">>, <<"t", "4", "0", "4">>}

TableTypes == {<<"OFFLINE">>, <<"REALTIME">>}

NoCredentials == [u |-> StringNull, p |-> StringNull]

\* the Kafka credentials that build a secret, or ask for none
GoodCredentials ==
  {NoCredentials,
   [u |-> StringValue(<<"kuser">>), p |-> StringValue(<<"kpass">>)]}

\* only one of the two, or one that is blank, or both the empty string
BadCredentials ==
  {[u |-> StringValue(<<"kuser">>), p |-> StringNull],
   [u |-> StringNull, p |-> StringValue(<<"kpass">>)],
   [u |-> StringValue(<<"kuser">>), p |-> StringValue(<<Blank>>)],
   [u |-> StringValue(<<Blank>>), p |-> StringValue(<<"kpass">>)],
   [u |-> StringValue(Empty), p |-> StringValue(Empty)]}

PlainMap == JMap([streamType |-> JStr(<<"kafka">>)])

SaslMap == JMap(Put(PlainMap.v, SaslKey, JStr(<<"old-secret">>)))

NonMap == JStr(<<"kafka">>)

\* the values tried at streamConfigMaps: none, a mapping, a sequence
MapsShapes ==
  {JNone, PlainMap, SaslMap}
    \cup {JList(q) : q \in UNION {[1..n -> {PlainMap, SaslMap, NonMap}] : n \in 0..MaxMaps}}

StreamIngestion(scm) ==
  LET base == [columnMajorSegmentBuilderEnabled |-> JBool(TRUE)]
  IN  JMap(IF scm = JNone THEN base ELSE Put(base, "streamConfigMaps", scm))

\* the values tried at ingestionConfig: none, not a mapping, a mapping
\* without streamIngestionConfig, and one with every shape of
\* streamConfigMaps
IngestionShapes ==
  {JNone, JStr(<<"none">>), JMap([continueOnError |-> JBool(TRUE)])}
    \cup {JMap([continueOnError |-> JBool(TRUE),
                streamIngestionConfig |-> StreamIngestion(scm)]) :
            scm \in MapsShapes}

\* a table document: its embedded name and type (none for JNone) and its
\* ingestionConfig
TableDoc(tn, tt, ingestion) ==
  LET base == [segmentsConfig |-> JMap([replication |-> JStr(<<"1">>)])]
      named == IF tn = JNone THEN base ELSE Put(base, "tableName", tn)
      typed == IF tt = JNone THEN named ELSE Put(named, "tableType", tt)
  IN  IF ingestion = JNone THEN typed
                           ELSE Put(typed, "ingestionConfig", ingestion)

\* the document of a table whose embedded name and type agree with the
\* declared ones
AgreeingDoc(name, typ, ingestion) ==
  TableDoc(JStr(joinTableID(name, typ)), JStr(typ), ingestion)

\* documents whose embedded name or type is left out, is empty, disagrees,
\* or agrees but for its case
OddDocs(name, typ) ==
  LET full == JStr(joinTableID(name, typ))
      same == JStr(typ)
      lower == JStr(IF typ = <<"OFFLINE">> THEN <<"offline">> ELSE <<"realtime">>)
      other == JStr(IF typ = <<"OFFLINE">> THEN <<"REALTIME">> ELSE <<"OFFLINE">>)
      wrong == JStr(joinTableID(name, other.v))
  IN  {TableDoc(id[1], id[2], JNone) :
         id \in {<<JNone, JNone>>, <<JNone, same>>, <<full, JNone>>,
                 <<JStr(Empty), same>>, <<wrong, same>>,
                 <<full, other>>, <<full, lower>>}}

TablePlan(n, t, d, c) ==
  [table_name |-> n, table_type |-> t, table_config |-> d,
   kafka_username |-> c.u, kafka_password |-> c.p]

\* the plans tried for a table: every ingestionConfig with and without
\* credentials; the odd documents and the bad credentials on their own
PlansOf(n, t) ==
  {TablePlan(n, t, AgreeingDoc(n, t, i), c) :
     i \in IngestionShapes, c \in GoodCredentials}
    \cup {TablePlan(n, t, d, NoCredentials) : d \in OddDocs(n, t)}
    \cup {TablePlan(n, t, AgreeingDoc(n, t, JNone), c) : c \in BadCredentials}

\* the plans tried, with those of a blank table_name: its composite name is
\* empty; and of a table_name that ends like a composite name
TablePlans ==
  UNION {PlansOf(n, t) : n \in TableNames, t \in TableTypes}
    \cup UNION {{TablePlan(<<Blank>>, t, d, NoCredentials) :
                   d \in OddDocs(<<Blank>>, t)} : t \in TableTypes}
    \cup {TablePlan(n, t, AgreeingDoc(n, t, JNone), NoCredentials) :
            n \in {<<"events", "_", "OFFLINE">>, <<"events", "_", "REALTIME">>},
            t \in TableTypes}

\* plans whose table_type is none of the two flavors: in lower case, another
\* word, empty
InvalidTypePlans ==
  {TablePlan(<<"events">>, t, AgreeingDoc(<<"events">>, t, JNone), NoCredentials) :
     t \in {<<"offline">>, <<"HYBRID">>, Empty}}

\* the plans of an Update: table_name and table_type are those of the state
\* (a change of either replaces the resource)
TableUpdatePlans(attrs) ==
  {p \in TablePlans :
     /\ p.table_name = ValueString(attrs.table_name)
     /\ p.table_type = ValueString(attrs.table_type)}

\* the answers tried for a request that writes
WriteAnswers ==
  {Answer(200, Text(<<"ok">>)), Answer(500, Text(<<"internal error">>)),
   NetFailure}

\* the answers to a second request, which is sent only when the first one
\* was answered as asked
After(ok, answers) == IF ok THEN answers ELSE {NetFailure}

Succeeds(resp) == ~resp.net /\ resp.status < 400

\* the answers tried for a request that reads: failures, and a body that is
\* no JSON object
ReadFailures ==
  {Answer(404, Text(<<"not found">>)), Answer(500, Text(<<"internal error">>)),
   Answer(500, Text(<<"upstream said ", "4", "0", "4">>)), Answer(200, Text(Empty)), NetFailure}

\* the answers tried for a DELETE
DeleteAnswers ==
  WriteAnswers \cup {Answer(404, Text(<<"not found">>)), Answer(201, Text(<<"ok">>))}

\* the configurations the controller holds for a table: without ingestion,
\* as a Create with credentials sends that one, and with a secret in the
\* mapping or in any element of the sequence
RemoteDocs(id, typ) ==
  {TableDoc(JStr(id), JStr(typ), JNone),
   injectKafkaSasl(TableDoc(JStr(id), JStr(typ), JNone),
                   buildSaslJaas(<<"kuser">>, <<"kpass">>))}
    \cup {TableDoc(JStr(id), JStr(typ),
                   JMap([streamIngestionConfig |-> StreamIngestion(scm)])) :
            scm \in {SaslMap}
                      \cup {JList(q) : q \in [1..MaxMaps -> {SaslMap, NonMap}]}}

\* the answers tried for GET /tables/{id}: the configuration under one
\* wrapper key, under none, and a response with both keys
TableAnswers(id) ==
  ReadFailures
    \cup {Answer(200, JMap([OFFLINE |-> JMap(d)])) : d \in RemoteDocs(id, <<"OFFLINE">>)}
    \cup {Answer(200, JMap([REALTIME |-> JMap(d)])) : d \in RemoteDocs(id, <<"REALTIME">>)}
    \cup {Answer(200, JMap(d)) : d \in RemoteDocs(id, <<"OFFLINE">>)}
    \cup {Answer(200, JMap([OFFLINE |-> JMap(TableDoc(JStr(id), JStr(<<"OFFLINE">>), JNone)),
                            REALTIME |-> JMap(TableDoc(JStr(id), JStr(<<"REALTIME">>), JNone))]))}

\* the IDs tried for an import: well formed, without a suffix, with a blank
\* name, and of a name that ends in a suffix itself
ImportIDs ==
  {joinTableID(n, t) : n \in TableNames, t \in TableTypes}
    \cup {<<"events">>, <<Blank, "_", "OFFLINE">>, <<"_", "REALTIME">>,
          <<"events", "_", "OFFLINE", "_", "REALTIME">>}

SchemaNames == {<<"orders">>, <<"other">>}

\* the field specs tried: singleValueField true, false and left out, and a
\* key PinotSchema does not know
FieldSpecs ==
  {JMap([name |-> JStr(<<"id">>), dataType |-> JStr(<<"STRING">>)]),
   JMap([name |-> JStr(<<"id">>), dataType |-> JStr(<<"STRING">>),
         singleValueField |-> JBool(TRUE)]),
   JMap([name |-> JStr(<<"tags">>), dataType |-> JStr(<<"STRING">>),
         singleValueField |-> JBool(FALSE)]),
   JMap([name |-> JStr(<<"id">>), dataType |-> JStr(<<"STRING">>),
         maxLength |-> JStr(<<"512">>)])}

\* a schema document: its schemaName (none for JNone), its dimensions and,
\* when asked, a top-level key PinotSchema does not know
SchemaDoc(sn, dims, extra) ==
  LET base == [dimensionFieldSpecs |-> JList(dims)]
      named == IF sn = JNone THEN base ELSE Put(base, "schemaName", sn)
  IN  IF extra THEN Put(named, "primaryKeyColumns", JList(<<JStr(<<"id">>)>>))
               ELSE named

\* the documents tried: named as any schema or not at all
SchemaDocs ==
  {SchemaDoc(sn, <<f>>, FALSE) :
     sn \in {JStr(n) : n \in SchemaNames} \cup {JNone}, f \in FieldSpecs}
    \cup {SchemaDoc(JStr(n), <<>>, TRUE) : n \in SchemaNames}

SchemaPlans ==
  {[schema_name |-> n, schema |-> d] : n \in SchemaNames, d \in SchemaDocs}

\* the plans of an Update: a change of schema_name replaces the resource
SchemaUpdatePlans(attrs) ==
  {p \in SchemaPlans : p.schema_name = ValueString(attrs.schema_name)}

\* the answers tried for GET /schemas/{name}
SchemaAnswers ==
  ReadFailures \cup {Answer(200, JMap(d)) : d \in SchemaDocs}

\* the component as declared: in the controller's spelling, or not
Components == {<<"BROKER">>, <<"broker">>}

UserPlans ==
  {[username |-> u, password |-> p, component |-> c, role |-> <<"ADMIN">>,
    tables |-> t, permissions |-> ListValue(<<<<"READ">>>>)] :
     u \in {<<"alice">>}, c \in Components,
     p \in {StringNull, StringValue(Empty), StringValue(<<"pw">>)},
     t \in {ListNull, ListValue(<<<<"ALL">>>>)}}

\* the plans of an Update: a change of username replaces the resource
UserUpdatePlans(attrs) ==
  {p \in UserPlans : p.username = ValueString(attrs.username)}

\* a user object as the controller holds it
UserRecord(username, component, role) ==
  (K("username") :> JStr(username)) @@ (K("component") :> JStr(component))
    @@ (K("role") :> JStr(role))
    @@ (K("permissions") :> JList(<<JStr(<<"READ">>)>>))

\* the bodies tried for GET /users/{username}: the plain object (with and
\* without a password), the wrapper keyed as the controller does (the
\* component in upper case, as in the query), the wrapper with a second
\* user, with one or two other users only, a plain object that also holds a
\* wrapper key, an entry that is no object, and the empty object
UserBodies(username, component) ==
  LET Wrapped(key, rec) == key :> JMap(rec)
      mine == UserRecord(username, ToUpper(component), <<"ADMIN">>)
      theirs == UserRecord(<<"bob">>, ToUpper(component), <<"USER">>)
      upper == WrapperKey(username, ToUpper(component))
      bob == WrapperKey(<<"bob">>, ToUpper(component))
      carol == WrapperKey(<<"carol">>, ToUpper(component))
  IN  {mine,
       mine @@ (K("password") :> JStr(<<"hash">>)),
       Wrapped(upper, mine),
       Wrapped(upper, mine) @@ Wrapped(bob, theirs),
       Wrapped(bob, theirs),
       Wrapped(bob, theirs) @@ Wrapped(carol, theirs),
       theirs @@ Wrapped(upper, mine),
       upper :> JStr(<<"gone">>),
       EmptyMap}

UserAnswers(username, component) ==
  ReadFailures \cup {Answer(200, JMap(b)) : b \in UserBodies(username, component)}

\* the settings of a provider: the environment and the provider block (an
\* attribute that is null or "" is left to the environment), no client
\* yet.  The credentials tried: a token with a prefix, of three parts, of
\* two, opaque, with blanks around it, or none; a username and password,
\* the username alone, or none
ProviderSettings ==
  LET Credentials ==
        {[token |-> t, username |-> p[1], password |-> p[2]] :
           t \in {Empty, <<"Bearer ", "abc">>, <<"Basic ", "dXNlcg==">>,
                  <<"a", ".", "b", ".", "c">>, <<"a", ".", "b">>, <<"opaque">>,
                  <<Blank, "opaque", Blank>>},
           p \in {<<Empty, Empty>>, <<<<"u">>, <<"p">> >>, <<<<"u">>, Empty>>}}
  IN  {[env |-> e, config |-> c,
        client |-> [token |-> Empty, username |-> Empty, password |-> Empty]] :
         e \in Credentials,
         c \in {d \in Credentials :
                  /\ d.token \in {Empty, <<"Bearer ", "abc">>,
                                  <<"a", ".", "b", ".", "c">>}
                  /\ d.password = Empty}}

(***************************************************************************)
(* The resource instance.                                                  *)
(***************************************************************************)
Kinds == {"table", "schema", "user"}

NullOf(k) ==
  CASE k = "table" -> TableNull
    [] k = "schema" -> SchemaNullAttrs
    [] k = "user" -> UserNullAttrs

\* no operation is under way: the host has taken the last response
Idle == Last("none", NoInput, Outcome(state, <<>>, <<>>, <<>>))

\* a resource of one kind that is not tracked yet, or a provider that is not
\* configured yet
Init ==
  /\ \/ kind \in Kinds /\ state = Absent(NullOf(kind))
     \/ kind = "provider" /\ state \in {Absent(a) : a \in ProviderSettings}
  /\ last = Idle

\* a handler runs: it leaves the tracked state and its response
Apply(op, input, o) ==
  /\ last.op = "none"
  /\ state' = o.state
  /\ last' = Last(op, input, o)
  /\ UNCHANGED kind

TableCreate ==
  /\ kind = "table"
  /\ ~state.present
  /\ \E plan \in TablePlans \cup InvalidTypePlans, resp \in WriteAnswers :
       Apply("TableCreate", plan,
             IF ValidTableType(plan.table_type)
               THEN TableCreateOutcome(state, plan, resp)
               ELSE Outcome(state,
                            <<Diag("Invalid Attribute Value Match",
                                   <<"Attribute table_type value must be one of: [\"OFFLINE\" \"REALTIME\"], got: \"">>
                                     \o plan.table_type \o <<"\"">>)>>,
                            <<>>, <<>>))

TableRead ==
  /\ kind = "table"
  /\ state.present
  /\ \E resp \in TableAnswers(ValueString(state.attrs.id)) :
       Apply("TableRead", NoInput, TableReadOutcome(state, resp))

TableUpdate ==
  /\ kind = "table"
  /\ state.present
  /\ \E plan \in TableUpdatePlans(state.attrs), resp \in WriteAnswers :
     \E reloadResp \in After(Succeeds(resp), WriteAnswers) :
       Apply("TableUpdate", plan,
             TableUpdateOutcome(state, plan, resp, reloadResp))

TableDelete ==
  /\ kind = "table"
  /\ state.present
  /\ \E envSet \in BOOLEAN, resp \in DeleteAnswers :
     \E fallbackResp \in After(~envSet \/ resp.net \/ resp.status \notin DeletedStatuses,
                               DeleteAnswers) :
       Apply("TableDelete", [envSet |-> envSet],
             TableDeleteOutcome(state, envSet, resp, fallbackResp))

TableImport ==
  /\ kind = "table"
  /\ ~state.present
  /\ \E id \in ImportIDs :
       Apply("TableImport", [id |-> id], TableImportOutcome(state, id))

SchemaCreate ==
  /\ kind = "schema"
  /\ ~state.present
  /\ \E plan \in SchemaPlans, resp \in WriteAnswers :
       Apply("SchemaCreate", plan, SchemaCreateOutcome(state, plan, resp))

SchemaRead ==
  /\ kind = "schema"
  /\ state.present
  /\ \E resp \in SchemaAnswers :
       Apply("SchemaRead", NoInput, SchemaReadOutcome(state, resp))

SchemaUpdate ==
  /\ kind = "schema"
  /\ state.present
  /\ \E plan \in SchemaUpdatePlans(state.attrs), resp \in WriteAnswers :
       Apply("SchemaUpdate", plan, SchemaUpdateOutcome(state, plan, resp))

SchemaDelete ==
  /\ kind = "schema"
  /\ state.present
  /\ \E resp \in DeleteAnswers :
       Apply("SchemaDelete", NoInput, SchemaDeleteOutcome(state, resp))

UserCreate ==
  /\ kind = "user"
  /\ ~state.present
  /\ \E plan \in UserPlans, resp \in WriteAnswers :
     \E getResp \in After(Succeeds(resp),
                          UserAnswers(plan.username, plan.component)) :
       Apply("UserCreate", plan, UserCreateOutcome(state, plan, resp, getResp))

UserRead ==
  /\ kind = "user"
  /\ state.present
  /\ \E resp \in UserAnswers(ValueString(state.attrs.username),
                             ValueString(state.attrs.component)) :
       Apply("UserRead",
             [username |-> ValueString(state.attrs.username),
              component |-> ValueString(state.attrs.component),
              password |-> state.attrs.password],
             UserReadOutcome(state, resp))

UserUpdate ==
  /\ kind = "user"
  /\ state.present
  /\ \E plan \in UserUpdatePlans(state.attrs), resp \in WriteAnswers :
       Apply("UserUpdate", plan, UserUpdateOutcome(state, plan, resp))

UserDelete ==
  /\ kind = "user"
  /\ state.present
  /\ \E resp \in DeleteAnswers :
       Apply("UserDelete", NoInput, UserDeleteOutcome(state, resp))

\* the handler's response (diagnostics and state) goes back to the host;
\* the next operation starts from the tracked state alone
\* the host configures the provider: the client gets its credentials
ProviderConfigure ==
  /\ kind = "provider"
  /\ ~state.present
  /\ Apply("ProviderConfigure", NoInput,
           Outcome(Present([state.attrs EXCEPT
                              !.client = Configure(state.attrs.env,
                                                   state.attrs.config)]),
                   <<>>, <<>>, <<>>))

\* a request of the client, with the header doRequest gives it
ClientRequest ==
  /\ kind = "provider"
  /\ state.present
  /\ \E method \in {"GET", "POST", "PUT", "DELETE"} :
       Apply("ClientRequest", NoInput,
             Outcome(state, <<>>, <<>>,
                     <<Request(method, TablesURL, NoBody, Answer(200, Text(<<"ok">>)))
                         @@ [auth |-> AuthHeader(state.attrs.client)]>>))

\* the primary delete of a table, with the header deleteTableByLogical
\* gives it
PrimaryDelete ==
  /\ kind = "provider"
  /\ state.present
  /\ Apply("PrimaryDelete", NoInput,
           Outcome(state, <<>>, <<>>,
                   <<Request("DELETE",
                             TablesURL \o <<"/", "events", "?type=", "OFFLINE">>,
                             NoBody, Answer(200, Text(<<"ok">>)))
                       @@ [auth |-> DeleteAuthHeader(state.attrs.env)]>>))

Respond ==
  /\ last.op # "none"
  /\ last' = Idle
  /\ UNCHANGED <<kind, state>>

Next ==
  \/ TableCreate
  \/ TableRead
  \/ TableUpdate
  \/ TableDelete
  \/ TableImport
  \/ SchemaCreate
  \/ SchemaRead
  \/ SchemaUpdate
  \/ SchemaDelete
  \/ UserCreate
  \/ UserRead
  \/ UserUpdate
  \/ UserDelete
  \/ ProviderConfigure
  \/ ClientRequest
  \/ PrimaryDelete
  \/ Respond

Spec == Init /\ [][Next]_vars


(***************************************************************************)
(* Properties of the table resource.                                       *)
(***************************************************************************)
\* the first request of the last operation was sent and answered as asked
Sent == last.reqs # <<>>

Answered(req) == ~req.resp.net /\ req.resp.status < 400

\* a value at streamConfigMaps that holds the secret: in the mapping, or in
\* any mapping of the sequence
HoldsSecret(scm) ==
  \/ IsMap(scm) /\ SaslKey \in DOMAIN scm.v
  \/ IsList(scm) /\ \E i \in DOMAIN scm.v :
                      IsMap(scm.v[i]) /\ SaslKey \in DOMAIN scm.v[i].v

\* C1: the table_config held in the tracked state of a table never has the
\* key sasl.jaas.config at ingestionConfig.streamIngestionConfig
\* .streamConfigMaps, neither in the mapping shape nor in any mapping of the
\* sequence shape, whatever credentials were planned and whatever the
\* controller returned.
C1_StateHoldsNoSecret ==
  (kind = "table" /\ state.present /\ ~state.attrs.table_config.null)
    => ~HoldsSecret(StreamConfigMaps(state.attrs.table_config.v))

\* a Read took a configuration whose secret sits in the second mapping of
\* the sequence, and wrote the state
C1_Witness ==
  /\ last.op = "TableRead"
  /\ last.errors = <<>>
  /\ state.present
  /\ LET scm == StreamConfigMaps(GetTable(ValueString(state.attrs.id),
                                          last.reqs[1].resp).config)
     IN  /\ IsList(scm)
         /\ Len(scm.v) >= 2
         /\ IsMap(scm.v[2])
         /\ SaslKey \in DOMAIN scm.v[2].v
  /\ IsList(StreamConfigMaps(state.attrs.table_config.v))

\* the plan of the last Create or Update gives both credentials, neither
\* blank
ValidCredentials ==
  /\ last.op \in {"TableCreate", "TableUpdate"}
  /\ ~last.input.kafka_username.null
  /\ ~last.input.kafka_password.null
  /\ TrimSpace(last.input.kafka_username.v) # Empty
  /\ TrimSpace(last.input.kafka_password.v) # Empty

\* the credential of the last plan
PlannedCredential ==
  buildSaslJaas(last.input.kafka_username.v, last.input.kafka_password.v)

\* a value at streamConfigMaps that carries the credential where the
\* controller looks for it: in the mapping, or in the first mapping of the
\* sequence
Carries(scm, cred) ==
  \/ IsMap(scm) /\ Get(scm.v, SaslKey) = JStr(cred)
  \/ /\ IsList(scm)
     /\ Len(scm.v) > 0
     /\ IsMap(scm.v[1])
     /\ Get(scm.v[1].v, SaslKey) = JStr(cred)

\* C2: in a table Create or Update whose plan gives both credentials, the
\* document of the POST /tables or PUT /tables/{name} carries the built
\* credential at streamConfigMaps; the redaction for the state comes after
\* and leaves the document sent as it is: the state written holds the
\* credential only in sasl_jaas_config.
C2_SentDocumentCarriesCredential ==
  (ValidCredentials /\ Sent)
    => /\ IF last.op = "TableCreate"
            THEN last.reqs[1].method = "POST" /\ last.reqs[1].url = TablesURL
            ELSE /\ last.reqs[1].method = "PUT"
                 /\ last.reqs[1].url
                      = TableURL(StringAt(last.input.table_config, "tableName"))
       /\ Carries(StreamConfigMaps(last.reqs[1].body.v), PlannedCredential)
       /\ Answered(last.reqs[1])
            => /\ state.present
               /\ state.attrs.sasl_jaas_config = StringValue(PlannedCredential)
               /\ ~HoldsSecret(StreamConfigMaps(state.attrs.table_config.v))

\* an Update with credentials sent a document whose streamConfigMaps is a
\* sequence that starts with no mapping, and wrote the state
C2_Witness ==
  /\ last.op = "TableUpdate"
  /\ ValidCredentials
  /\ Sent
  /\ Answered(last.reqs[1])
  /\ IsList(StreamConfigMaps(last.input.table_config))
  /\ Len(StreamConfigMaps(last.input.table_config).v) > 0
  /\ ~IsMap(StreamConfigMaps(last.input.table_config).v[1])
  /\ state.present

\* the GET of the last Read was answered with status 404
Answered404 == Sent /\ ~last.reqs[1].resp.net /\ last.reqs[1].resp.status = 404

\* the GET of the last Read failed, and not by an answer of status 404
FailedOtherwise ==
  /\ Sent
  /\ \/ last.reqs[1].resp.net
     \/ last.reqs[1].resp.status >= 400 /\ last.reqs[1].resp.status # 404

\* C3: a table Read whose GET fails for another reason than an answer of
\* status 404 (another status from 400 on whatever the body, a network
\* failure whatever the ID) reports an error and does not remove the
\* resource from the state.
C3_OtherFailuresKeepState ==
  (last.op = "TableRead" /\ FailedOtherwise)
    => (state.present /\ last.errors # <<>>)

\* C4: for every kind of resource, a Read whose GET is answered with status
\* 404 removes the resource from the state and reports no error.
C4_NotFoundRemoves ==
  (last.op \in {"TableRead", "SchemaRead", "UserRead"} /\ Answered404)
    => (~state.present /\ last.errors = <<>>)

\* the primary delete of the last Delete failed: it was not sent for want of
\* the controller's URL, or its answer was a failure
PrimaryFailed ==
  \/ ~last.input.envSet
  \/ /\ Sent
     /\ \/ last.reqs[1].resp.net
        \/ last.reqs[1].resp.status \notin DeletedStatuses

\* the DELETE /tables/{logical}?type=FLAVOR
IsPrimary(req) == req.method = "DELETE" /\ Contains(req.url, <<"?type=">>)

\* the DELETE /tables/{compositeId}
IsFallback(req) == req.method = "DELETE" /\ ~Contains(req.url, <<"?type=">>)

\* the fallback of the last Delete was sent
FallbackSent ==
  \E i \in DOMAIN last.reqs : IsFallback(last.reqs[i])

FallbackFailed ==
  \E i \in DOMAIN last.reqs :
    IsFallback(last.reqs[i]) /\ ~Answered(last.reqs[i])

\* the one error of a Delete whose two deletes failed
CitesBoth ==
  /\ Len(last.errors) = 1
  /\ Contains(last.errors[1].detail, <<"logical delete failed: ">>)
  /\ Contains(last.errors[1].detail, <<"; fallback delete failed: ">>)

\* the two tiers of Delete: the fallback only after a failed primary delete,
\* no error when either succeeds, one error that cites both causes when
\* both fail
TwoTiers ==
  /\ \A i \in DOMAIN last.reqs :
       IsFallback(last.reqs[i])
         => PrimaryFailed /\ \A j \in DOMAIN last.reqs : IsPrimary(last.reqs[j]) => j < i
  /\ (PrimaryFailed /\ FallbackFailed) => CitesBoth
  /\ ~(PrimaryFailed /\ FallbackFailed) => last.errors = <<>>

\* C5 as claimed: the fallback DELETE /tables/{compositeId} goes out only
\* after the primary DELETE /tables/{logical}?type=FLAVOR has failed; Delete
\* reports an error only when both fail, and then one error citing both
\* causes; when either succeeds it reports none.
C5_DeleteErrsOnlyWhenBothFail ==
  last.op = "TableDelete" => TwoTiers

\* C5 as amended: a Delete that finds a logical name and a flavor in the
\* attributes or the ID behaves as claimed and loses its state exactly when
\* it reports no error; a Delete that finds none sends nothing, reports one
\* error and keeps the state.
C5_DeleteTwoTiers ==
  [][last'.op = "TableDelete"
       => IF DeleteTarget(state.attrs).logical # Empty
             /\ DeleteTarget(state.attrs).typ # Empty
            THEN /\ TwoTiers'
                 /\ state'.present = (last'.errors # <<>>)
            ELSE /\ last'.reqs = <<>>
                 /\ Len(last'.errors) = 1
                 /\ state' = state]_vars

\* a Delete whose primary delete failed and whose fallback succeeded
C5_Witness ==
  /\ last.op = "TableDelete"
  /\ PrimaryFailed
  /\ FallbackSent
  /\ ~FallbackFailed
  /\ last.errors = <<>>
  /\ ~state.present

\* the embedded name and type of the last plan's document, empty when the
\* key is missing, and the composite name of the declared attributes
EmbeddedName == StringAt(last.input.table_config, "tableName")

EmbeddedType == StringAt(last.input.table_config, "tableType")

DeclaredName == joinTableID(last.input.table_name, last.input.table_type)

\* the last operation ended on the identity validation, nothing sent
Rejected ==
  /\ last.reqs = <<>>
  /\ Len(last.errors) = 1
  /\ last.errors[1].summary \in {"Table Name Mismatch", "Table Type Mismatch"}

C7_SchemaNameMismatchRejected ==
  [][(/\ last'.op \in {"SchemaCreate", "SchemaUpdate"}
      /\ DecodeSchema(last'.input.schema).SchemaName # last'.input.schema_name)
       => /\ last'.reqs = <<>>
          /\ Len(last'.errors) = 1
          /\ last'.errors[1].summary = "Schema Name Mismatch"
          /\ state' = state]_vars

WriteOps ==
  {"TableCreate", "TableUpdate", "SchemaCreate", "SchemaUpdate",
   "UserCreate", "UserUpdate"}

\* C8: a Create or Update of a table, a schema or a user whose POST or PUT
\* fails (an answer of status 400 or more, a network failure, a cancelled
\* request) leaves the tracked state as it was before the operation.
C8_FailedWriteKeepsState ==
  [][(/\ last'.op \in WriteOps
      /\ last'.reqs # <<>>
      /\ ~Answered(last'.reqs[1]))
       => state' = state]_vars

\* the PUT of an Update of a resource that is in the state failed
C8_Witness ==
  /\ last.op \in {"TableUpdate", "SchemaUpdate", "UserUpdate"}
  /\ Sent
  /\ ~Answered(last.reqs[1])
  /\ last.errors # <<>>
  /\ state.present

\* the reload of the last Update: the second request
IsReload(req) == req.method = "POST" /\ Contains(req.url, <<"/reload?type=">>)

\* C9: in a table Update whose PUT succeeds, a failed reload (POST
\* /segments/{logical}/reload?type=FLAVOR) gives one warning and no error,
\* and the state is written from the plan; a reload is sent only after a
\* PUT that succeeded.
C9_ReloadFailureIsWarning ==
  last.op = "TableUpdate"
    => /\ \A i \in DOMAIN last.reqs :
            IsReload(last.reqs[i])
              => i = 2 /\ last.reqs[1].method = "PUT" /\ Answered(last.reqs[1])
       /\ (Len(last.reqs) = 2 /\ ~Answered(last.reqs[2]))
            => /\ last.errors = <<>>
               /\ Len(last.warnings) = 1
               /\ last.warnings[1].summary = "Pinot Segment Reload Failed"
               /\ state.present
               /\ state.attrs.table_config
                    = ConfigValue(removeSaslJaasFromTableConfig(last.reqs[1].body.v))
               /\ state.attrs.kafka_username = last.input.kafka_username

\* the PUT of an Update succeeded and its reload failed
C9_Witness ==
  /\ last.op = "TableUpdate"
  /\ Len(last.reqs) = 2
  /\ Answered(last.reqs[1])
  /\ IsReload(last.reqs[2])
  /\ ~Answered(last.reqs[2])
  /\ last.warnings # <<>>

\* the record the priority of the lookup picks from the response object
\* top, with the wrapper key in the controller's spelling
Chosen(username, component, top) ==
  LET key == WrapperKey(username, ToUpper(component))
  IN  CASE K("username") \in DOMAIN top -> [found |-> TRUE, raw |-> JMap(top)]
        [] key \in DOMAIN top -> [found |-> TRUE, raw |-> top[key]]
        [] Cardinality(DOMAIN top) = 1 -> [found |-> TRUE, raw |-> OnlyValue(top)]
        [] OTHER -> [found |-> FALSE, raw |-> JNone]

\* C10: the lookup of (username, component) picks the record from the
\* response object by priority: the object itself when it has a username
\* field; else the value under username_COMPONENT, the component in upper
\* case however it was declared; else the single value of a one-key object;
\* else it fails with the unrecognized-shape error.  A Read takes its
\* attributes from the record picked.
C10_LookupPriority ==
  (last.op = "UserRead" /\ Sent /\ Answered(last.reqs[1])
     /\ IsMap(last.reqs[1].resp.body))
    => LET pick == Chosen(last.input.username, last.input.component,
                          last.reqs[1].resp.body.v)
       IN  /\ (pick.found /\ IsMap(pick.raw))
                => /\ last.errors = <<>>
                   /\ state.attrs.username
                        = StringValue(StringAt(pick.raw.v, K("username")))
                   /\ state.attrs.role
                        = StringValue(StringAt(pick.raw.v, K("role")))
           /\ ~pick.found
                => /\ Len(last.errors) = 1
                   /\ Contains(last.errors[1].detail,
                               <<"unexpected user response; neither plain object nor wrapper with key \"">>)

\* the user lookup was answered 200 with the empty object or an empty body
AnsweredEmpty ==
  /\ last.op = "UserRead" /\ Sent /\ last.reqs[1].resp.status = 200
  /\ \/ last.reqs[1].resp.body = JMap(EmptyMap)
     \/ /\ ~IsMap(last.reqs[1].resp.body)
        /\ TrimSpace(BodyText(last.reqs[1].resp.body)) = Empty

\* C11: a user lookup answered with the empty object {} or with an empty or
\* blank body counts as "not found": the Read reports neither the
\* unrecognized-shape error nor a decoding error.
C11_EmptyAnswerIsNotFound ==
  AnsweredEmpty
    => \A i \in DOMAIN last.errors :
         /\ ~Contains(last.errors[i].detail, <<"unexpected user response; neither plain object nor wrapper with key \"">>)
         /\ ~Contains(last.errors[i].detail, <<"failed to unmarshal user JSON: ">>)

\* the plan gives exactly one of the two credentials
OneCredential(plan) == plan.kafka_username.null # plan.kafka_password.null

\* the plan gives both, and one of them is empty once trimmed
EmptyCredential(plan) ==
  /\ ~plan.kafka_username.null
  /\ ~plan.kafka_password.null
  /\ \/ TrimSpace(plan.kafka_username.v) = Empty
     \/ TrimSpace(plan.kafka_password.v) = Empty

\* the last handler stopped at the credentials
CredentialsIncomplete ==
  /\ Len(last.errors) = 1
  /\ last.errors[1].summary = "Kafka Credentials Incomplete"
  /\ last.reqs = <<>>

\* C12: a table Create or Update whose plan gives exactly one of
\* kafka_username / kafka_password, or gives a value that is empty once
\* trimmed, and whose document passes identity validation, stops with the
\* incomplete-credentials error: no request is sent and the state stays as
\* it was.
C12_IncompleteCredentialsStop ==
  [][(/\ last'.op \in {"TableCreate", "TableUpdate"}
      /\ OneCredential(last'.input) \/ EmptyCredential(last'.input)
      /\ ~Rejected')
       => /\ CredentialsIncomplete'
          /\ state' = state]_vars

\* an Update of a tracked table stopped at a password that is blank
C12_Witness ==
  /\ last.op = "TableUpdate"
  /\ state.present
  /\ ~last.input.kafka_password.null
  /\ last.input.kafka_password.v = <<Blank>>
  /\ CredentialsIncomplete

\* the plan of the last Create or Update gives both credentials as the empty
\* string
BothEmpty ==
  /\ last.op \in {"TableCreate", "TableUpdate"}
  /\ last.input.kafka_username = StringValue(Empty)
  /\ last.input.kafka_password = StringValue(Empty)

\* the plan of the last Create or Update gives neither credential
BothNull ==
  /\ last.op \in {"TableCreate", "TableUpdate"}
  /\ last.input.kafka_username.null
  /\ last.input.kafka_password.null

\* the last Create or Update went past the credentials with nothing
\* injected: the document it sends is that of the plan, and the state it
\* writes has no sasl_jaas_config
WentOnUninjected ==
  /\ \A i \in DOMAIN last.errors :
       last.errors[i].summary # "Kafka Credentials Incomplete"
  /\ Sent => last.reqs[1].body = JMap(last.input.table_config)
  /\ last.errors = <<>>
       => Sent /\ state.present /\ state.attrs.sasl_jaas_config.null

\* C13 as stated: with an empty username and an empty password the
\* credential is none and there is no error; the operation goes on with the
\* document as planned.
C13_EmptyPairIsNoCredential ==
  (BothEmpty /\ ~Rejected) => WentOnUninjected

\* C13: with neither kafka_username nor kafka_password supplied (both null)
\* there is no credential and no error, and the operation goes on with the
\* document as planned; with both supplied as empty strings it stops with
\* the incomplete-credentials error and sends nothing.
C13_NullPairIsNoCredential ==
  /\ (BothNull /\ ~Rejected) => WentOnUninjected
  /\ (BothEmpty /\ ~Rejected) => CredentialsIncomplete

\* a Create without credentials sent the planned document and wrote the
\* state
C13_Witness ==
  /\ BothNull
  /\ last.op = "TableCreate"
  /\ WentOnUninjected
  /\ last.errors = <<>>

\* streamConfigMaps of the planned document and of the document sent
MapsPlanned == StreamConfigMaps(last.input.table_config)

MapsSent == StreamConfigMaps(last.reqs[1].body.v)

\* the mapping after is the mapping before with the secret set to cred and
\* every other key as it was
SecretSet(before, after, cred) ==
  /\ IsMap(after)
  /\ DOMAIN after.v = DOMAIN before \cup {SaslKey}
  /\ after.v[SaslKey] = JStr(cred)
  /\ \A k \in DOMAIN before \ {SaslKey} : after.v[k] = before[k]

\* C14: in a table Create or Update with both credentials, the document
\* sent has sasl.jaas.config at streamConfigMaps according to the planned
\* shape: absent -> a one-element sequence holding a mapping with only the
\* secret; a mapping -> the key set in it, its other keys unchanged; a
\* non-empty sequence -> the key set on the first element only (a fresh
\* mapping with only the secret when the first element is no mapping) and
\* every later element unchanged.
C14_InjectionByShape ==
  (ValidCredentials /\ Sent)
    => /\ MapsPlanned = JNone
            => /\ IsList(MapsSent)
               /\ Len(MapsSent.v) = 1
               /\ SecretSet(<<>>, MapsSent.v[1], PlannedCredential)
       /\ IsMap(MapsPlanned)
            => SecretSet(MapsPlanned.v, MapsSent, PlannedCredential)
       /\ (IsList(MapsPlanned) /\ Len(MapsPlanned.v) > 0)
            => /\ IsList(MapsSent)
               /\ Len(MapsSent.v) = Len(MapsPlanned.v)
               /\ SecretSet(IF IsMap(MapsPlanned.v[1]) THEN MapsPlanned.v[1].v
                                                       ELSE <<>>,
                            MapsSent.v[1], PlannedCredential)
               /\ \A i \in 2..Len(MapsPlanned.v) :
                    MapsSent.v[i] = MapsPlanned.v[i]

\* a Create with credentials sent a document planned with a sequence whose
\* first element is no mapping and whose second is one
C14_Witness ==
  /\ ValidCredentials
  /\ last.op = "TableCreate"
  /\ Sent
  /\ IsList(MapsPlanned)
  /\ Len(MapsPlanned.v) = 2
  /\ ~IsMap(MapsPlanned.v[1])
  /\ IsMap(MapsPlanned.v[2])
  /\ SaslKey \notin DOMAIN MapsPlanned.v[2].v

\* a Create or Update with credentials went through and wrote its state
WroteWithCredentials ==
  /\ ValidCredentials
  /\ last.errors = <<>>
  /\ state.present

\* a document without what it has at
\* ingestionConfig.streamIngestionConfig.streamConfigMaps
Outside(doc) ==
  LET ing == Get(doc, "ingestionConfig")
      str == IF IsMap(ing) THEN Get(ing.v, "streamIngestionConfig") ELSE JNone
  IN  IF IsMap(str)
        THEN Put(doc, "ingestionConfig",
                 JMap(Put(ing.v, "streamIngestionConfig",
                          JMap(Without(str.v, "streamConfigMaps")))))
        ELSE doc

\* C15 as stated: the redacted document of a Create or Update with
\* credentials equals the planned one everywhere outside streamConfigMaps,
\* also when the planned one has no ingestionConfig or no
\* streamIngestionConfig.
C15_RoundTripOutside ==
  WroteWithCredentials
    => Outside(state.attrs.table_config.v) = Outside(last.input.table_config)

\* the mapping after has every key of the value before (no key when that is
\* no mapping) with its value, but for key k, which it has as a mapping
SameBut(before, after, k) ==
  LET b == IF IsMap(before) THEN before.v ELSE <<>>
  IN  /\ DOMAIN after = DOMAIN b \cup {k}
      /\ IsMap(after[k])
      /\ \A x \in DOMAIN b \ {k} : after[x] = b[x]

\* C15: the redacted document of a Create or Update with credentials equals
\* the planned one at every top-level key other than ingestionConfig, at
\* every key of ingestionConfig other than streamIngestionConfig and at
\* every key of streamIngestionConfig other than streamConfigMaps; an
\* ingestionConfig or streamIngestionConfig that is missing or no mapping in
\* the planned document is a mapping in the redacted one.
C15_RoundTripBesideContainers ==
  WroteWithCredentials
    => LET d == last.input.table_config
           r == state.attrs.table_config.v
           dIng == Get(d, "ingestionConfig")
           dStr == IF IsMap(dIng) THEN Get(dIng.v, "streamIngestionConfig")
                                  ELSE JNone
       IN  /\ SameBut(JMap(d), r, "ingestionConfig")
           /\ SameBut(dIng, r["ingestionConfig"].v, "streamIngestionConfig")
           /\ LET rStr == r["ingestionConfig"].v["streamIngestionConfig"].v
              IN  /\ DOMAIN rStr
                       = (IF IsMap(dStr) THEN DOMAIN dStr.v ELSE {})
                           \cup {"streamConfigMaps"}
                  /\ IsMap(dStr)
                       => \A x \in DOMAIN dStr.v \ {"streamConfigMaps"} :
                            rStr[x] = dStr.v[x]

\* an Update with credentials wrote the state of a plan whose ingestionConfig
\* and streamIngestionConfig are mappings with other keys, streamConfigMaps
\* a mapping
C15_Witness ==
  /\ WroteWithCredentials
  /\ last.op = "TableUpdate"
  /\ IsMap(MapsPlanned)
  /\ "continueOnError" \in DOMAIN last.input.table_config["ingestionConfig"].v
  /\ Get(state.attrs.table_config.v["ingestionConfig"].v, "continueOnError")
       = JBool(TRUE)

\* the last handler redacted a document and wrote the result to the state
Redacted ==
  /\ last.op \in {"TableCreate", "TableUpdate", "TableRead"}
  /\ last.errors = <<>>
  /\ state.present

\* the document the last handler redacted: the one sent by Create and
\* Update, the one fetched by Read
RedactedDocument ==
  IF last.op = "TableRead"
    THEN GetTable(ValueString(state.attrs.id), last.reqs[1].resp).config
    ELSE last.reqs[1].body.v

SecretRemoved(before, after) ==
  /\ IsMap(after)
  /\ DOMAIN after.v = DOMAIN before.v \ {SaslKey}
  /\ \A k \in DOMAIN after.v : after.v[k] = before.v[k]

\* C17: where the document a Create, Update or Read redacts has a sequence
\* at streamConfigMaps, the table_config written has a sequence of the same
\* length there, every mapping element without sasl.jaas.config and with
\* every other key, every other element as it was, in the same order; where
\* it has a mapping, the table_config written has that mapping without
\* that key only.
C17_RedactionOfEachShape ==
  Redacted
    => LET before == StreamConfigMaps(RedactedDocument)
           after == StreamConfigMaps(state.attrs.table_config.v)
       IN  /\ IsList(before)
                => /\ IsList(after)
                   /\ Len(after.v) = Len(before.v)
                   /\ \A i \in DOMAIN before.v :
                        IF IsMap(before.v[i])
                          THEN SecretRemoved(before.v[i], after.v[i])
                          ELSE after.v[i] = before.v[i]
           /\ IsMap(before) => SecretRemoved(before, after)

\* a Read redacted a fetched sequence of an element that is no mapping and
\* a mapping that holds the secret beside another key
C17_Witness ==
  /\ Redacted
  /\ last.op = "TableRead"
  /\ LET before == StreamConfigMaps(RedactedDocument)
     IN  /\ IsList(before)
         /\ Len(before.v) = 2
         /\ ~IsMap(before.v[1])
         /\ IsMap(before.v[2])
         /\ SaslKey \in DOMAIN before.v[2].v
         /\ "streamType" \in DOMAIN before.v[2].v

\* the last Create wrote the state of a plan with one of the two flavors and
\* a table_name that is not empty and has no blank around it
CreatedValidPair ==
  /\ last.op = "TableCreate"
  /\ last.errors = <<>>
  /\ state.present
  /\ last.input.table_type \in {<<"OFFLINE">>, <<"REALTIME">>}
  /\ last.input.table_name # Empty
  /\ TrimSpace(last.input.table_name) = last.input.table_name

\* C18: the ID a Create derives from a valid pair (table_name, table_type)
\* splits back into that pair, also when the table_name itself ends in
\* _OFFLINE or _REALTIME.
C18_SplitOfJoin ==
  CreatedValidPair
    => splitTableID(ValueString(state.attrs.id))
         = <<last.input.table_name, last.input.table_type>>

\* a Create of the realtime table of a table_name that ends in _OFFLINE
C18_Witness ==
  /\ CreatedValidPair
  /\ last.input.table_name = <<"events", "_", "OFFLINE">>
  /\ last.input.table_type = <<"REALTIME">>
  /\ state.attrs.id
       = StringValue(<<"events", "_", "OFFLINE", "_", "REALTIME">>)

\* C19: a Create whose table_type is neither OFFLINE nor REALTIME fails on
\* that attribute: one error, no request, no ID derived and no state
\* written; a Create of a valid pair that goes through derives the ID
\* table_name, "_" and the flavor in upper case.
C19_FlavorDecidesID ==
  [][last'.op = "TableCreate"
       => /\ last'.input.table_type \notin {<<"OFFLINE">>, <<"REALTIME">>}
               => /\ Len(last'.errors) = 1
                  /\ last'.errors[1].summary = "Invalid Attribute Value Match"
                  /\ last'.reqs = <<>>
                  /\ state' = state
          /\ CreatedValidPair'
               => state'.attrs.id
                    = StringValue(last'.input.table_name \o <<"_">>
                                    \o ToUpper(last'.input.table_type))]_vars

\* a Create with the flavor in lower case was turned down
C19_Witness ==
  /\ last.op = "TableCreate"
  /\ last.input.table_type = <<"offline">>
  /\ Len(last.errors) = 1
  /\ last.reqs = <<>>
  /\ ~state.present

\* an ID that ends in neither _OFFLINE nor _REALTIME
Unsuffixed(id) ==
  /\ ~HasSuffix(id, <<"_", "OFFLINE">>)
  /\ ~HasSuffix(id, <<"_", "REALTIME">>)

\* the Delete about to run cannot take both table_name and table_type from
\* the attributes and has an ID without a suffix to parse
DeleteReliesOnBareID ==
  /\ state.present
  /\ \/ TrimSpace(ValueString(state.attrs.table_name)) = Empty
     \/ TrimSpace(ValueString(state.attrs.table_type)) = Empty
  /\ Unsuffixed(ValueString(state.attrs.id))

\* C20: an ID that ends in neither _OFFLINE nor _REALTIME parses to the
\* whole string and an empty flavor, and the callers stop there: Import
\* reports the invalid-ID error and sets no attribute; a Delete that has
\* to parse such an ID reports one error, sends nothing and keeps the
\* state.
C20_BareIDFailsFast ==
  [][/\ (last'.op = "TableImport" /\ Unsuffixed(last'.input.id))
          => /\ splitTableID(last'.input.id) = <<last'.input.id, Empty>>
             /\ Len(last'.errors) = 1
             /\ last'.errors[1].summary = "Invalid Import ID"
             /\ last'.reqs = <<>>
             /\ state' = state
             /\ ~state'.present
     /\ (last'.op = "TableDelete" /\ DeleteReliesOnBareID)
          => /\ splitTableID(ValueString(state.attrs.id))
                  = <<ValueString(state.attrs.id), Empty>>
             /\ Len(last'.errors) = 1
             /\ last'.errors[1].summary = "Error Deleting Pinot Table"
             /\ last'.reqs = <<>>
             /\ state' = state]_vars

\* an Import of the ID "events" was turned down
C20_Witness ==
  /\ last.op = "TableImport"
  /\ last.input.id = <<"events">>
  /\ Len(last.errors) = 1
  /\ ~state.present

\* the last operation is a table Read whose GET was answered with an object
ReadGotObject ==
  /\ last.op = "TableRead"
  /\ Sent
  /\ Answered(last.reqs[1])
  /\ IsMap(last.reqs[1].resp.body)

\* the object a table Read was answered with
ReadObject == last.reqs[1].resp.body.v

\* the last Read stored the redaction of doc, without error
Stored(doc) ==
  /\ last.errors = <<>>
  /\ state.present
  /\ state.attrs.table_config = ConfigValue(removeSaslJaasFromTableConfig(doc))

\* C21: a table Read answered with an object that has an object under
\* "OFFLINE" or under "REALTIME" takes the value under one of the two keys
\* as the configuration; answered with an object that has neither key, it
\* takes the object unchanged, without error.
C21_UnwrapsOneKey ==
  ReadGotObject
    => /\ ("OFFLINE" \in DOMAIN ReadObject /\ "REALTIME" \notin DOMAIN ReadObject)
            => Stored(ReadObject["OFFLINE"].v)
       /\ ("REALTIME" \in DOMAIN ReadObject /\ "OFFLINE" \notin DOMAIN ReadObject)
            => Stored(ReadObject["REALTIME"].v)
       /\ ("REALTIME" \in DOMAIN ReadObject /\ "OFFLINE" \in DOMAIN ReadObject)
            => \/ Stored(ReadObject["OFFLINE"].v)
               \/ Stored(ReadObject["REALTIME"].v)
       /\ ("REALTIME" \notin DOMAIN ReadObject /\ "OFFLINE" \notin DOMAIN ReadObject)
            => Stored(ReadObject)

\* a Read was answered with a configuration without wrapper and stored it
C21_Witness ==
  /\ ReadGotObject
  /\ "OFFLINE" \notin DOMAIN ReadObject
  /\ "REALTIME" \notin DOMAIN ReadObject
  /\ "tableName" \in DOMAIN ReadObject
  /\ Stored(ReadObject)

\* C22: a user Read that succeeds leaves the password of the tracked state
\* as it was, whatever the controller returned, a password field included.
C22_ReadKeepsPassword ==
  [][(last'.op = "UserRead" /\ last'.errors = <<>>)
       => /\ state'.present
          /\ state'.attrs.password = state.attrs.password]_vars

\* a Read took the role from a response that carries a password field,
\* while the state holds another password
C22_Witness ==
  /\ last.op = "UserRead"
  /\ last.errors = <<>>
  /\ IsMap(last.reqs[1].resp.body)
  /\ K("password") \in DOMAIN last.reqs[1].resp.body.v
  /\ ~state.attrs.password.null
  /\ JStr(state.attrs.password.v) # last.reqs[1].resp.body.v[K("password")]
  /\ state.attrs.role = StringValue(<<"ADMIN">>)

\* C23: the PUT of a user Update has no "password" field when the planned
\* password is null or empty, and has the planned password otherwise; after
\* an Update that succeeds the tracked role, tables and permissions are
\* the planned ones.
C23_UpdatePassword ==
  (last.op = "UserUpdate" /\ Sent)
    => LET sent == last.reqs[1].body.v
           planned == last.input.password
       IN  /\ last.reqs[1].method = "PUT"
           /\ (planned.null \/ planned.v = Empty)
                => K("password") \notin DOMAIN sent
           /\ (~planned.null /\ planned.v # Empty)
                => /\ K("password") \in DOMAIN sent
                   /\ sent[K("password")] = JStr(planned.v)
           /\ last.errors = <<>>
                => /\ state.present
                   /\ state.attrs.role = StringValue(last.input.role)
                   /\ state.attrs.tables = last.input.tables
                   /\ state.attrs.permissions = last.input.permissions

\* an Update without password went through and wrote the planned tables
C23_Witness ==
  /\ last.op = "UserUpdate"
  /\ Sent
  /\ last.errors = <<>>
  /\ last.input.password.null
  /\ K("password") \notin DOMAIN last.reqs[1].body.v
  /\ ~last.input.tables.null
  /\ state.attrs.tables = last.input.tables

(***************************************************************************)
(* Properties of the client.                                               *)
(***************************************************************************)
\* the credentials the provider is configured with: those of its block,
\* else those of the environment
Configured ==
  LET from(f) == IF state.attrs.config[f] # Empty THEN state.attrs.config[f]
                                                  ELSE state.attrs.env[f]
  IN  [token |-> from("token"), username |-> from("username"),
       password |-> from("password")]

\* the one Authorization header the precedence gives for credentials c
Precedence(c) ==
  LET tok == TrimSpace(c.token)
      periods == Cardinality({i \in DOMAIN tok : tok[i] = "."})
      prefixed == /\ Len(tok) > 0
                  /\ tok[1] \in {"Bearer ", "Basic "}
  IN  IF prefixed THEN Header(tok)
      ELSE IF periods >= 2 THEN Header(<<"Bearer ">> \o tok)
      ELSE IF tok # Empty THEN Header(<<"Basic ">> \o tok)
      ELSE IF c.username # Empty \/ c.password # Empty
        THEN Header(<<"Basic ", "base64(">> \o c.username \o <<":">>
                      \o c.password \o <<")">>)
      ELSE NoHeader

\* C24: every request to the controller, the primary table delete
\* included, has the Authorization header the precedence gives for the
\* configured credentials: a token with the prefix "Bearer " or "Basic " as
\* it is; else a token with two periods or more as "Bearer <token>"; else
\* a token that is not empty as "Basic <token>"; else HTTP Basic of
\* username and password; else none.
C24_AuthorizationPrecedence ==
  (last.op \in {"ClientRequest", "PrimaryDelete"})
    => last.reqs[1].auth = Precedence(Configured)

\* the handlers whose first request goes through doRequest and whose
\* failure they report as it is
ReportingOps ==
  {"TableCreate", "TableUpdate", "SchemaCreate", "SchemaRead", "SchemaUpdate",
   "SchemaDelete", "UserCreate", "UserRead", "UserUpdate", "UserDelete"}

\* an error of the last operation cites m
Cites(m) == \E i \in DOMAIN last.errors : Contains(last.errors[i].detail, m)

\* C25: a call of the client gives an error with the status and the raw
\* body exactly when the status is 400 or more, an error of the request
\* when the request itself fails, and no error for a status below 400; the
\* request is sent once.
C25_TransportErrors ==
  (last.op \in ReportingOps /\ Sent)
    => LET req == last.reqs[1]
           resp == req.resp
           apiError == <<"API error (status ">> \o Digits(resp.status)
                         \o <<"): ">> \o BodyText(resp.body)
       IN  /\ (~resp.net /\ resp.status >= 400) => Cites(apiError)
           /\ resp.net => Cites(<<"request failed: ">>)
           /\ (~resp.net /\ resp.status < 400)
                => /\ ~Cites(<<"API error (status ">>)
                   /\ ~Cites(<<"request failed: ">>)
           /\ \A i, j \in DOMAIN last.reqs :
                (last.reqs[i].method = last.reqs[j].method
                   /\ last.reqs[i].url = last.reqs[j].url) => i = j

\* a schema Read was answered 404 and reports the status and the body
C25_Witness ==
  /\ last.op = "SchemaRead"
  /\ Sent
  /\ last.reqs[1].resp.status = 404
  /\ Len(last.reqs) = 1
  /\ Cites(<<"API error (status ", "4", "0", "4", "): ">>
             \o BodyText(last.reqs[1].resp.body))

(***************************************************************************)
(* Properties of the table resource across operations.                     *)
(***************************************************************************)
\* the four attributes the import test compares
Identity(attrs) ==
  <<attrs.id, attrs.table_name, attrs.table_type, attrs.table_config>>

\* the plans without Kafka credentials and with a table_name that is not
\* empty and has no blank around it
PlainPlans ==
  {p \in TablePlans :
     /\ p.kafka_username.null
     /\ p.kafka_password.null
     /\ p.table_name # Empty
     /\ TrimSpace(p.table_name) = p.table_name}

\* what a Create of plan p tracks when its POST is answered 200
Created(p) ==
  TableCreateOutcome(Absent(TableNull), p, Answer(200, Text(<<"ok">>)))

\* C26: an Import of an ID logical_FLAVOR makes the table tracked, with id,
\* table_name and table_type set and nothing sent, no Create needed; and a
\* Read after the Import of the ID of a Create, answered with the
\* configuration that Create sent, tracks the id, table_name, table_type
\* and table_config that the Create tracked (no Kafka credentials used).
C26_ImportThenReadIsCreate ==
  [][/\ (last'.op = "TableImport" /\ last'.errors = <<>>)
          => /\ ~state.present
             /\ state'.present
             /\ last'.reqs = <<>>
             /\ ~state'.attrs.id.null
             /\ state'.attrs.table_name.v \o <<"_">> \o state'.attrs.table_type.v
                  = last'.input.id
     /\ (last'.op = "TableRead" /\ last'.errors = <<>>
           /\ state.present /\ state.attrs.table_config.null)
          => \A p \in PlainPlans :
               (/\ Created(p).errors = <<>>
                /\ Created(p).state.attrs.id = state.attrs.id
                /\ GetTable(ValueString(state.attrs.id), last'.reqs[1].resp).config
                     = Created(p).reqs[1].body.v)
                 => /\ state'.present
                    /\ Identity(state'.attrs) = Identity(Created(p).state.attrs)]_vars

\* a Read after an Import tracks what the Create of a plan tracks
C26_Witness ==
  /\ last.op = "TableRead"
  /\ last.errors = <<>>
  /\ state.present
  /\ state.attrs.kafka_username.null
  /\ \E p \in PlainPlans :
       /\ Created(p).errors = <<>>
       /\ last.reqs[1].resp.body = JMap([OFFLINE |-> Created(p).reqs[1].body])
       /\ Identity(state.attrs) = Identity(Created(p).state.attrs)

\* C27: the configuration a table Read stores has the flavor of the ID
\* read: the Read of an ID that ends in _REALTIME does not store the
\* configuration under the "OFFLINE" key of the response, and stores the
\* one under "REALTIME" when the response has both keys.
C27_ReadStoresOwnFlavor ==
  (ReadGotObject /\ last.errors = <<>> /\ state.present
     /\ HasSuffix(ValueString(state.attrs.id), <<"_", "REALTIME">>))
    => /\ IsMap(Get(ReadObject, "OFFLINE"))
            => ~Stored(ReadObject["OFFLINE"].v)
       /\ (IsMap(Get(ReadObject, "OFFLINE")) /\ IsMap(Get(ReadObject, "REALTIME")))
            => Stored(ReadObject["REALTIME"].v)

(***************************************************************************)
(* Properties of the schema resource.                                      *)
(***************************************************************************)
\* every key of the mapping declared is in the mapping sent, with its value
CarriesKeys(declared, sent) ==
  /\ IsMap(sent)
  /\ \A k \in DOMAIN declared.v :
       k \in DOMAIN sent.v /\ sent.v[k] = declared.v[k]

\* C28: the document a schema Create or Update sends carries every value
\* of the planned document: each top-level key, known to the typed record
\* or not, and each key of each field spec, a singleValueField = false
\* included.
C28_SchemaSentAsDeclared ==
  (last.op \in {"SchemaCreate", "SchemaUpdate"} /\ Sent)
    => LET declared == last.input.schema
           sent == last.reqs[1].body.v
       IN  \A k \in DOMAIN declared :
             /\ k \in DOMAIN sent
             /\ IF k = "dimensionFieldSpecs"
                  THEN /\ IsList(sent[k])
                       /\ Len(sent[k].v) = Len(declared[k].v)
                       /\ \A i \in DOMAIN declared[k].v :
                            CarriesKeys(declared[k].v[i], sent[k].v[i])
                  ELSE sent[k] = declared[k]

\* the outcomes of the Create and of the Update of plan p that go through:
\* what they track and what they sent
WrittenBy(p) ==
  {o \in {Created(p),
          TableUpdateOutcome(state, p, Answer(200, Text(<<"ok">>)),
                             Answer(200, Text(<<"ok">>)))} :
     o.errors = <<>> /\ o.reqs # <<>>}

\* C29: a table Read of a state that a Create or an Update wrote, answered
\* with the configuration that Create or Update sent, leaves every tracked
\* attribute as it was, also when Kafka credentials are used.
C29_ReadOfUnchangedRemote ==
  [][(last'.op = "TableRead" /\ last'.errors = <<>> /\ state.present)
       => \A p \in TablePlans : \A o \in WrittenBy(p) :
            (/\ o.state = state
             /\ GetTable(ValueString(state.attrs.id), last'.reqs[1].resp).config
                  = o.reqs[1].body.v)
              => state' = state]_vars

\* the Delete sent its primary request and the controller answered 404
PrimaryAnsweredNotFound ==
  /\ last.op = "TableDelete"
  /\ last.input.envSet
  /\ last.reqs # <<>>
  /\ ~last.reqs[1].resp.net
  /\ last.reqs[1].resp.status = 404

\* C30: a table Delete whose primary DELETE is answered 404 reports no
\* error, sends no fallback request, and the table is no longer tracked.
C30_DeleteOfAbsentTable ==
  PrimaryAnsweredNotFound
    => /\ last.errors = <<>>
       /\ Len(last.reqs) = 1
       /\ ~state.present

\* a Delete went through on a primary request answered 404
C30_Witness ==
  /\ PrimaryAnsweredNotFound
  /\ last.reqs[1].method = "DELETE"
  /\ last.errors = <<>>
  /\ ~state.present

====
